---- MODULE Spec2Model ----
(***************************************************************************)
(* Model of the polyalphabetic cipher solver (stblake/polyalphabetic).     *)
(*                                                                         *)
(* Three state machines share this module:                                 *)
(*   SpecCipher  - the encrypt/decrypt primitives applied to bounded       *)
(*                 messages, alphabets and cyclewords;                     *)
(*   SpecClimber - one call of shotgun_hill_climber;                       *)
(*   SpecSolve   - the orchestrator solve_cipher.                          *)
(* Arrays of the C source are sequences; a C index i is position i+1.      *)
(***************************************************************************)
EXTENDS Integers, Sequences, FiniteSets, TLC

(***************************************************************************)
(* Program constants (polyalphabetic.h).                                   *)
(***************************************************************************)
ALPHABET_SIZE == 26

VIGENERE == 0

QUAGMIRE_1 == 1

QUAGMIRE_2 == 2

QUAGMIRE_3 == 3

QUAGMIRE_4 == 4

BEAUFORT == 5

PORTA == 6

AUTOKEY_0 == 7

AUTOKEY_1 == 8

AUTOKEY_2 == 9

AUTOKEY_3 == 10

AUTOKEY_4 == 11

(***************************************************************************)
(* Bounds of the model.                                                    *)
(***************************************************************************)
\* longest message handed to the cipher primitives
MaxTextLen == 2

\* longest cycleword handed to the cipher primitives
MaxKeyLen == 2

VARIABLES
    cipher_type,                \* cfg->cipher_type
    variant,                    \* cfg->variant
    plaintext_keyword_indices,  \* PT keyed alphabet given to a primitive
    ciphertext_keyword_indices, \* CT keyed alphabet given to a primitive
    cycleword_indices,          \* cycleword given to a primitive
    message,                    \* the text the harness started from
    buffer,                     \* the text after the operations in trail
    trail,                      \* the operations applied so far ("enc"/"dec")
    \* ---- configuration and arguments of shotgun_hill_climber ----
    optimal_cycleword,              \* cfg->optimal_cycleword
    same_key_cycle,                 \* cfg->same_key_cycle
    user_plaintext_keyword_present, \* cfg->user_plaintext_keyword_present
    user_ciphertext_keyword_present,\* cfg->user_ciphertext_keyword_present
    n_restarts,                     \* cfg->n_restarts
    n_hill_climbs,                  \* cfg->n_hill_climbs
    cipher_indices,                 \* the ciphertext
    cribs,                          \* <<crib_positions[j], crib_indices[j]>>, j < n_cribs
    cycleword_len,
    plaintext_keyword_len,
    ciphertext_keyword_len,
    \* ---- locals of shotgun_hill_climber ----
    current_plaintext_keyword_state,
    current_ciphertext_keyword_state,
    current_cycleword_state,        \* the first cycleword_len entries
    current_score,
    local_plaintext_keyword_state,
    local_ciphertext_keyword_state,
    local_cycleword_state,
    local_score,
    best_plaintext_keyword_state,
    best_ciphertext_keyword_state,
    best_cycleword_state,
    best_score,
    perturbate_keyword_p,
    did_perturb_keyword,            \* as the last turn of the hill-climb loop left it
    n_contradictions,
    restart,                        \* the loop counter n
    climb,                          \* the loop counter i
    pc,                             \* position in the climber
    \* ---- the caller's result buffers ----
    plaintext_keyword,
    ciphertext_keyword,
    cycleword,
    score,                          \* the climber's return value
    \* ---- solve_cipher ----
    cfg,                \* the keyword and cycleword length fields of cfg
    estimated,          \* the list estimate_cycleword_lengths yields for the text
    estimator_ran,      \* estimate_cycleword_lengths was called
    cycleword_lengths,
    min_kw,
    pt_max,
    ct_max,
    visit,              \* number of climber invocations so far
    solve_best,         \* the best_* locals of solve_cipher
    max_returned,       \* largest score the climber returned so far
    best_decrypted,
    cribtext_str,       \* the crib line: letters as c - 'A', '_' as UNDERSCORE
    estimator           \* raw_iocs, z_scores, std_dev of estimate_cycleword_lengths

vars_cipher == <<cipher_type, variant, plaintext_keyword_indices,
                 ciphertext_keyword_indices, cycleword_indices, message,
                 buffer, trail>>

vars_cfg == <<optimal_cycleword, same_key_cycle, user_plaintext_keyword_present,
              user_ciphertext_keyword_present, n_restarts, n_hill_climbs,
              cipher_indices, cribs, cycleword_len>>

vars_climber == <<plaintext_keyword_len, ciphertext_keyword_len,
                  current_plaintext_keyword_state, current_ciphertext_keyword_state,
                  current_cycleword_state, current_score,
                  local_plaintext_keyword_state, local_ciphertext_keyword_state,
                  local_cycleword_state, local_score,
                  best_plaintext_keyword_state, best_ciphertext_keyword_state,
                  best_cycleword_state, best_score,
                  perturbate_keyword_p, did_perturb_keyword, n_contradictions,
                  restart, climb, pc>>

vars_out == <<plaintext_keyword, ciphertext_keyword, cycleword, score>>

vars_solve == <<cfg, estimated, estimator_ran, cycleword_lengths, min_kw, pt_max,
                ct_max, visit, solve_best, max_returned, best_decrypted,
                cribtext_str, estimator>>

vars == <<vars_cipher, vars_cfg, vars_climber, vars_out, vars_solve>>

(***************************************************************************)
(* Helpers for C arrays and C arithmetic.                                  *)
(***************************************************************************)
Letters == 0 .. (ALPHABET_SIZE - 1)

\* a[i] of the C source
At(a, i) == a[i + 1]

(***************************************************************************)
(* The C type double: a value is NaN or a fraction n/d in lowest terms,    *)
(* d > 0.  The arithmetic is exact; rounding is left out.                  *)
(***************************************************************************)
RECURSIVE GCD(_, _)
GCD(a, b) == IF b = 0 THEN a ELSE GCD(b, a % b)

Abs(x) == IF x < 0 THEN -x ELSE x

Sign(x) == IF x < 0 THEN -1 ELSE IF x > 0 THEN 1 ELSE 0

NaN == [nan |-> TRUE, n |-> 0, d |-> 1]

Dbl(n, d) ==
    LET g == GCD(Abs(n), d)
    IN  [nan |-> FALSE, n |-> Sign(n) * (Abs(n) \div g), d |-> d \div g]

\* 0.0
Zero == Dbl(0, 1)

\* a + b
DAdd(a, b) ==
    IF a.nan \/ b.nan THEN NaN
    ELSE LET g == GCD(a.d, b.d)
         IN  Dbl(a.n * (b.d \div g) + b.n * (a.d \div g), (a.d \div g) * b.d)

\* a - b
DSub(a, b) == DAdd(a, [b EXCEPT !.n = -b.n])

\* a * b
DMul(a, b) ==
    IF a.nan \/ b.nan THEN NaN
    ELSE LET g1 == GCD(Abs(a.n), b.d)
             g2 == GCD(Abs(b.n), a.d)
         IN  Dbl((a.n \div g1) * (b.n \div g2), (a.d \div g2) * (b.d \div g1))

\* a / b; 0.0 / 0.0 is NaN, and no other division by 0.0 is made
DDiv(a, b) ==
    IF a.nan \/ b.nan \/ b.n = 0 THEN NaN
    ELSE DMul(a, [nan |-> FALSE, n |-> Sign(b.n) * b.d, d |-> Abs(b.n)])

\* a < b, a > b, a >= b: FALSE when an operand is NaN
DLess(a, b) ==
    /\ ~a.nan /\ ~b.nan
    /\ LET g == GCD(a.d, b.d) IN a.n * (b.d \div g) < b.n * (a.d \div g)

DGreater(a, b) == DLess(b, a)

DGeq(a, b) == ~a.nan /\ ~b.nan /\ ~DLess(a, b)

\* C's % (truncated towards zero) for a positive modulus
CRem(a, n) == IF a >= 0 THEN a % n ELSE -((-a) % n)

IsPermutation(a) ==
    /\ Len(a) = ALPHABET_SIZE
    /\ \A v \in Letters : Cardinality({i \in 1 .. ALPHABET_SIZE : a[i] = v}) = 1

\* straight_alphabet(keyword, ALPHABET_SIZE)
straight_alphabet == [i \in 1 .. ALPHABET_SIZE |-> i - 1]

\* The "for (j...) if (x == alphabet[j]) { posn = j; break; }" search: the
\* first index holding ch.  The loop leaves posn untouched when ch is absent;
\* the model has no value for that case and TLC stops there.
Position(alphabet, ch) ==
    CHOOSE j \in Letters :
        /\ At(alphabet, j) = ch
        /\ \A k \in 0 .. (j - 1) : At(alphabet, k) # ch

\* make_keyed_alphabet: the distinct letters of the keyword in order, then
\* the unseen letters in ascending order.
RECURSIVE KeywordDistinct(_, _)
KeywordDistinct(keyword, acc) ==
    IF keyword = <<>> THEN acc
    ELSE IF \E i \in 1 .. Len(acc) : acc[i] = Head(keyword)
         THEN KeywordDistinct(Tail(keyword), acc)
         ELSE KeywordDistinct(Tail(keyword), Append(acc, Head(keyword)))

RECURSIVE FillUnseen(_, _)
FillUnseen(acc, i) ==
    IF i >= ALPHABET_SIZE THEN acc
    ELSE IF \E n \in 1 .. Len(acc) : acc[n] = i
         THEN FillUnseen(acc, i + 1)
         ELSE FillUnseen(Append(acc, i), i + 1)

make_keyed_alphabet(keyword_str) ==
    LET prefix == KeywordDistinct(keyword_str, <<>>)
        seen   == {prefix[n] : n \in 1 .. Len(prefix)}
        rest   == FillUnseen(<<>>, 0)
    IN  prefix \o SelectSeq(rest, LAMBDA v : v \notin seen)

(***************************************************************************)
(* Cipher primitives.                                                      *)
(***************************************************************************)
\* quagmire_decrypt: p = position of x_i in C, q = position of the cycleword
\* letter in C, plaintext_i = P[(variant ? p+q : p-q) mod 26].  The beaufort
\* flag of this definition mirrors the cycleword letter and the output.
quagmire_decrypt_mut(cipher_ix, plaintext_kw, ciphertext_kw, cycleword_ix, var, beaufort) ==
    [i \in 1 .. Len(cipher_ix) |->
        LET posn_keyword == Position(ciphertext_kw, cipher_ix[i])
            cw0  == At(cycleword_ix, (i - 1) % Len(cycleword_ix))
            cw_indx == IF beaufort THEN ALPHABET_SIZE - cw0 - 1 ELSE cw0
            posn_cycleword == Position(ciphertext_kw, cw_indx)
            \* bug: both directions subtract
            raw  == CRem(posn_keyword - posn_cycleword, ALPHABET_SIZE)
            indx == IF raw < 0 THEN raw + ALPHABET_SIZE ELSE raw
            out  == At(plaintext_kw, indx)
        IN  IF beaufort THEN ALPHABET_SIZE - out - 1 ELSE out]

\* quagmire_decrypt looking the cycleword letter up in the PT alphabet
quagmire_decrypt_ptlookup(cipher_ix, plaintext_kw, ciphertext_kw, cycleword_ix, var, beaufort) ==
    [i \in 1 .. Len(cipher_ix) |->
        LET posn_keyword == Position(ciphertext_kw, cipher_ix[i])
            cw0  == At(cycleword_ix, (i - 1) % Len(cycleword_ix))
            cw_indx == IF beaufort THEN ALPHABET_SIZE - cw0 - 1 ELSE cw0
            posn_cycleword == Position(plaintext_kw, cw_indx)
            raw  == IF var
                    THEN CRem(posn_keyword + posn_cycleword, ALPHABET_SIZE)
                    ELSE CRem(posn_keyword - posn_cycleword, ALPHABET_SIZE)
            indx == IF raw < 0 THEN raw + ALPHABET_SIZE ELSE raw
            out  == At(plaintext_kw, indx)
        IN  IF beaufort THEN ALPHABET_SIZE - out - 1 ELSE out]

quagmire_decrypt(cipher_ix, plaintext_kw, ciphertext_kw, cycleword_ix, var, beaufort) ==
    [i \in 1 .. Len(cipher_ix) |->
        LET posn_keyword == Position(ciphertext_kw, cipher_ix[i])
            cw0  == At(cycleword_ix, (i - 1) % Len(cycleword_ix))
            cw_indx == IF beaufort THEN ALPHABET_SIZE - cw0 - 1 ELSE cw0
            posn_cycleword == Position(ciphertext_kw, cw_indx)
            raw  == IF var
                    THEN CRem(posn_keyword + posn_cycleword, ALPHABET_SIZE)
                    ELSE CRem(posn_keyword - posn_cycleword, ALPHABET_SIZE)
            indx == IF raw < 0 THEN raw + ALPHABET_SIZE ELSE raw
            out  == At(plaintext_kw, indx)
        IN  IF beaufort THEN ALPHABET_SIZE - out - 1 ELSE out]

\* quagmire_encrypt: p = position of m_i in P, q = position of the cycleword
\* letter in C, ciphertext_i = C[(variant ? p-q : p+q) mod 26].
quagmire_encrypt(plaintext_indices, plaintext_kw, ciphertext_kw, cycleword_ix, var, beaufort) ==
    [i \in 1 .. Len(plaintext_indices) |->
        LET posn_keyword == Position(plaintext_kw, plaintext_indices[i])
            cw0  == At(cycleword_ix, (i - 1) % Len(cycleword_ix))
            cw_indx == IF beaufort THEN ALPHABET_SIZE - cw0 - 1 ELSE cw0
            posn_cycleword == Position(ciphertext_kw, cw_indx)
            raw  == IF var
                    THEN CRem(posn_keyword - posn_cycleword, ALPHABET_SIZE)
                    ELSE CRem(posn_keyword + posn_cycleword, ALPHABET_SIZE)
            indx == IF raw < 0 THEN raw + ALPHABET_SIZE ELSE raw
            out  == At(ciphertext_kw, indx)
        IN  IF beaufort THEN ALPHABET_SIZE - out - 1 ELSE out]

\* vigenere_decrypt / vigenere_encrypt: the Quagmire tableau on straight
\* alphabets (the calls pass no beaufort flag).
vigenere_decrypt(cipher_ix, cycleword_ix, var) ==
    quagmire_decrypt(cipher_ix, straight_alphabet, straight_alphabet,
                     cycleword_ix, var, FALSE)

vigenere_encrypt(plaintext_indices, cycleword_ix, var) ==
    quagmire_encrypt(plaintext_indices, straight_alphabet, straight_alphabet,
                     cycleword_ix, var, FALSE)

\* beaufort_decrypt with the operands exchanged: P = C - K (mod 26)
beaufort_decrypt_mut(cipher_ix, cycleword_ix) ==
    [i \in 1 .. Len(cipher_ix) |->
        LET c_val == cipher_ix[i]
            k_val == At(cycleword_ix, (i - 1) % Len(cycleword_ix))
        IN  CRem(c_val - k_val + ALPHABET_SIZE, ALPHABET_SIZE)]

\* beaufort_decrypt: P = K - C (mod 26)
beaufort_decrypt(cipher_ix, cycleword_ix) ==
    [i \in 1 .. Len(cipher_ix) |->
        LET c_val == cipher_ix[i]
            k_val == At(cycleword_ix, (i - 1) % Len(cycleword_ix))
        IN  CRem(k_val - c_val + ALPHABET_SIZE, ALPHABET_SIZE)]

\* beaufort_encrypt calls beaufort_decrypt
beaufort_encrypt(plaintext_indices, cycleword_ix) ==
    beaufort_decrypt(plaintext_indices, cycleword_ix)

\* porta_core with the second half left unshifted (a plausible slip)
porta_core_mut(input, cycleword_ix) ==
    [i \in 1 .. Len(input) |->
        LET input_val == input[i]
            key_val   == At(cycleword_ix, (i - 1) % Len(cycleword_ix))
            shift     == key_val \div 2
        IN  IF input_val < 13
            THEN CRem(input_val + shift, 13) + 13
            ELSE CRem(input_val - 13 + ALPHABET_SIZE, 13)]

\* porta_core: shift = key/2; A-M maps to N-Z by +shift, N-Z to A-M by -shift
porta_core(input, cycleword_ix) ==
    [i \in 1 .. Len(input) |->
        LET input_val == input[i]
            key_val   == At(cycleword_ix, (i - 1) % Len(cycleword_ix))
            shift     == key_val \div 2
        IN  IF input_val < 13
            THEN CRem(input_val + shift, 13) + 13
            ELSE CRem(input_val - 13 - shift + ALPHABET_SIZE, 13)]

porta_decrypt(input, cycleword_ix) == porta_core(input, cycleword_ix)

porta_encrypt(input, cycleword_ix) == porta_core(input, cycleword_ix)

\* The decrypt primitive of a periodic cipher type (the dispatch of
\* state_score).
decrypt_text(type, x, plaintext_kw, ciphertext_kw, cycleword_ix, var) ==
    IF type = PORTA THEN porta_decrypt(x, cycleword_ix)
    ELSE IF type = BEAUFORT THEN beaufort_decrypt(x, cycleword_ix)
    ELSE IF type = VIGENERE THEN vigenere_decrypt(x, cycleword_ix, var)
    ELSE quagmire_decrypt(x, plaintext_kw, ciphertext_kw, cycleword_ix, var, FALSE)

\* The matching encrypt primitive of a periodic cipher type.
encrypt_text(type, x, plaintext_kw, ciphertext_kw, cycleword_ix, var) ==
    IF type = PORTA THEN porta_encrypt(x, cycleword_ix)
    ELSE IF type = BEAUFORT THEN beaufort_encrypt(x, cycleword_ix)
    ELSE IF type = VIGENERE THEN vigenere_encrypt(x, cycleword_ix, var)
    ELSE quagmire_encrypt(x, plaintext_kw, ciphertext_kw, cycleword_ix, var, FALSE)

(***************************************************************************)
(* SpecCipher: a message, a well-formed state, and up to two operations.   *)
(***************************************************************************)
\* letters the bounded messages are written in (both Porta halves)
TextLetters == {12, 13, 25}

\* letters the bounded cyclewords are written in
KeyLetters == {3, 25}

\* keywords the keyed alphabets are built from: KRYPTOS, ZEBRA, and the
\* empty keyword (straight alphabet)
Keywords == {<<10, 17, 24, 15, 19, 14, 18>>, <<25, 4, 1, 17, 0>>, <<>>}

PeriodicTypes == {VIGENERE, QUAGMIRE_1, QUAGMIRE_2, QUAGMIRE_3, QUAGMIRE_4,
                  BEAUFORT, PORTA}

SeqsUpTo(S, n) == UNION {[1 .. m -> S] : m \in 1 .. n}

\* the alphabets a cipher type allows
AlphabetsOf(type, pa, ca) ==
    CASE type \in {VIGENERE, BEAUFORT, PORTA} ->
            pa = straight_alphabet /\ ca = straight_alphabet
      [] type = QUAGMIRE_1 -> ca = straight_alphabet
      [] type = QUAGMIRE_2 -> pa = straight_alphabet
      [] type = QUAGMIRE_3 -> pa = ca
      [] OTHER -> TRUE

\* contents of memory the program has not written yet
Indeterminate == <<>>

\* init_config: the defaults of the length fields of cfg
init_config ==
    [ciphertext_keyword_len |-> 5, plaintext_keyword_len |-> 5,
     ciphertext_max_keyword_len |-> 12, min_keyword_len |-> 5,
     plaintext_max_keyword_len |-> 12, max_cycleword_len |-> 20,
     cycleword_len |-> 0, plaintext_keyword_len_present |-> FALSE,
     ciphertext_keyword_len_present |-> FALSE, cycleword_len_present |-> FALSE,
     user_plaintext_keyword_present |-> FALSE,
     user_ciphertext_keyword_present |-> FALSE,
     n_sigma_threshold |-> Dbl(1, 1), ioc_threshold |-> Dbl(47, 1000)]

\* the estimator has not run: its arrays are not written
estimator_locals ==
    [raw_iocs |-> Indeterminate, z_scores |-> Indeterminate, std_dev_sq |-> Zero]

\* the locals of solve_cipher at its entry: best_score = 0.0, the best
\* lengths 0, the best arrays not written
solve_locals ==
    [best_score |-> 0, best_cycleword_length |-> 0,
     best_plaintext_keyword_length |-> 0, best_ciphertext_keyword_length |-> 0,
     best_plaintext_keyword |-> Indeterminate,
     best_ciphertext_keyword |-> Indeterminate,
     best_cycleword |-> Indeterminate]

\* solve_cipher is not running
IdleSolve ==
    /\ cfg = init_config
    /\ estimated = <<>>
    /\ estimator_ran = FALSE
    /\ cycleword_lengths = <<>>
    /\ min_kw = 0
    /\ pt_max = 0
    /\ ct_max = 0
    /\ visit = 0
    /\ solve_best = solve_locals
    /\ max_returned = 0
    /\ best_decrypted = Indeterminate
    /\ cribtext_str = <<>>
    /\ estimator = estimator_locals

\* the climber is not running
IdleClimber ==
    /\ optimal_cycleword = TRUE
    /\ same_key_cycle = FALSE
    /\ user_plaintext_keyword_present = FALSE
    /\ user_ciphertext_keyword_present = FALSE
    /\ n_restarts = 0
    /\ n_hill_climbs = 0
    /\ cipher_indices = <<>>
    /\ cribs = <<>>
    /\ cycleword_len = 0
    /\ plaintext_keyword_len = 0
    /\ ciphertext_keyword_len = 0
    /\ current_plaintext_keyword_state = Indeterminate
    /\ current_ciphertext_keyword_state = Indeterminate
    /\ current_cycleword_state = Indeterminate
    /\ current_score = 0
    /\ local_plaintext_keyword_state = Indeterminate
    /\ local_ciphertext_keyword_state = Indeterminate
    /\ local_cycleword_state = Indeterminate
    /\ local_score = 0
    /\ best_plaintext_keyword_state = Indeterminate
    /\ best_ciphertext_keyword_state = Indeterminate
    /\ best_cycleword_state = Indeterminate
    /\ best_score = 0
    /\ perturbate_keyword_p = FALSE
    /\ did_perturb_keyword = FALSE
    /\ n_contradictions = 0
    /\ restart = 0
    /\ climb = 0
    /\ pc = "idle"
    /\ plaintext_keyword = Indeterminate
    /\ ciphertext_keyword = Indeterminate
    /\ cycleword = Indeterminate
    /\ score = 0

InitCipher ==
    /\ IdleClimber
    /\ IdleSolve
    /\ cipher_type \in PeriodicTypes
    /\ variant \in BOOLEAN
    /\ plaintext_keyword_indices \in {make_keyed_alphabet(w) : w \in Keywords}
    /\ ciphertext_keyword_indices \in {make_keyed_alphabet(w) : w \in Keywords}
    /\ AlphabetsOf(cipher_type, plaintext_keyword_indices, ciphertext_keyword_indices)
    /\ cycleword_indices \in SeqsUpTo(KeyLetters, MaxKeyLen)
    /\ message \in SeqsUpTo(TextLetters, MaxTextLen)
    /\ buffer = message
    /\ trail = <<>>

Encrypt ==
    /\ Len(trail) < 2
    /\ buffer' = encrypt_text(cipher_type, buffer, plaintext_keyword_indices,
                              ciphertext_keyword_indices, cycleword_indices, variant)
    /\ trail' = Append(trail, "enc")
    /\ UNCHANGED <<cipher_type, variant, plaintext_keyword_indices,
                   ciphertext_keyword_indices, cycleword_indices, message>>
    /\ UNCHANGED <<vars_cfg, vars_climber, vars_out, vars_solve>>

Decrypt ==
    /\ Len(trail) < 2
    /\ buffer' = decrypt_text(cipher_type, buffer, plaintext_keyword_indices,
                              ciphertext_keyword_indices, cycleword_indices, variant)
    /\ trail' = Append(trail, "dec")
    /\ UNCHANGED <<cipher_type, variant, plaintext_keyword_indices,
                   ciphertext_keyword_indices, cycleword_indices, message>>
    /\ UNCHANGED <<vars_cfg, vars_climber, vars_out, vars_solve>>

NextCipher == Encrypt \/ Decrypt

SpecCipher == InitCipher /\ [][NextCipher]_vars

(***************************************************************************)
(* Claims on the cipher primitives.                                        *)
(***************************************************************************)
\* C1: for every cipher variant and every well-formed state, decrypting an
\* encrypted message gives the message back, and encrypting a decrypted
\* ciphertext gives the ciphertext back.
C1_RoundTrip ==
    /\ IsPermutation(plaintext_keyword_indices)
    /\ IsPermutation(ciphertext_keyword_indices)
    /\ (trail = <<"enc", "dec">> => buffer = message)
    /\ (trail = <<"dec", "enc">> => buffer = message)

\* C1 witness: a Quagmire IV state with two different keyed alphabets, the
\* variant flag set, and a two-letter message encrypted then decrypted.
C1_Witness ==
    /\ cipher_type = QUAGMIRE_4
    /\ variant
    /\ plaintext_keyword_indices # ciphertext_keyword_indices
    /\ plaintext_keyword_indices # straight_alphabet
    /\ ciphertext_keyword_indices # straight_alphabet
    /\ Len(message) = 2
    /\ Len(cycleword_indices) = 2
    /\ trail = <<"enc", "dec">>
    /\ buffer = message

\* C2: Beaufort and Porta are self-inverse: one application of decrypt gives
\* what encrypt gives, so any two applications with the same cycleword
\* return the input.
C2_SelfInverse ==
    cipher_type \in {BEAUFORT, PORTA} =>
        /\ (Len(trail) = 2 => buffer = message)
        /\ (Len(trail) = 1 =>
               /\ buffer = encrypt_text(cipher_type, message, plaintext_keyword_indices,
                              ciphertext_keyword_indices, cycleword_indices, variant)
               /\ buffer = decrypt_text(cipher_type, message, plaintext_keyword_indices,
                              ciphertext_keyword_indices, cycleword_indices, variant))

\* C2 witness: Porta applied twice (decrypt, decrypt) to a message with a
\* letter in each half under a cycleword with a non-zero shift.
C2_Witness ==
    /\ cipher_type = PORTA
    /\ trail = <<"dec", "dec">>
    /\ message = <<12, 13>>
    /\ cycleword_indices = <<3, 25>>
    /\ buffer = message

(***************************************************************************)
(* Random draws, initialisers and perturbators.                            *)
(***************************************************************************)
\* largest value of rand() the model draws
MaxDraw == 1

Draws == 0 .. MaxDraw

\* the values two successive rand() calls of one perturbation return
DrawPairs == {<<r, r + 1>> : r \in Draws}

\* values an int read before it was written may hold
IndeterminateInts == {-1, 0, ALPHABET_SIZE + 1}

\* contents an array of len ints read before it was written may hold:
\* one value throughout, or what an earlier call left there
IndeterminateArrays(len) ==
    {[x \in 1 .. len |-> g] : g \in IndeterminateInts} \cup {[x \in 1 .. len |-> x - 1]}

\* rand_int(min, max) when rand() returns r
rand_int(r, min, max) == min + (r % (max - min))

\* rand_int_frequency_weighted: every index of [min_index, max_index) has a
\* positive weight, the draw selects one; the loop finds none when the range
\* is empty and the function returns max_index - 1.
rand_int_frequency_weighted(r, min_index, max_index) ==
    IF min_index < max_index
    THEN min_index + (r % (max_index - min_index))
    ELSE max_index - 1

\* largest seed of the rand() streams the initialisers consume
MaxSeed == 0

Seeds == 0 .. MaxSeed

\* the p-th value rand() returns during one random initialisation, for a
\* seed: every value comes twice, so that random_keyword meets duplicates
RandStream(seed, p) == 10 + 7 * seed + 11 * ((p - 1) \div 2)

\* random_cycleword: keyword_len letters rand_int(0, max), drawn from stream
\* position p on
random_cycleword(seed, p, max, keyword_len) ==
    [c \in 1 .. keyword_len |-> rand_int(RandStream(seed, p + c - 1), 0, max)]

\* perturbate_cycleword: one slot gets a random letter
perturbate_cycleword(state, max, len, r1, r2) ==
    [state EXCEPT ![rand_int(r1, 0, len) + 1] = rand_int(r2, 0, max)]

\* perturbate_keyword.  within: frand() < 0.2 (swap two prefix slots);
\* otherwise the prefix letter at i is replaced by the suffix letter at j, the
\* suffix closes up, and the old prefix letter is re-inserted at its sorted
\* place in [keyword_len, len) -- a place that exists only if keyword_len < len.
perturbate_keyword(state, len, keyword_len, within, r1, r2) ==
    IF within
    THEN LET i == rand_int(r1, 0, keyword_len)
             j == rand_int(r2, 0, keyword_len)
         IN  [x \in 1 .. len |->
                 IF x - 1 = j THEN At(state, i)
                 ELSE IF x - 1 = i THEN At(state, j)
                 ELSE state[x]]
    ELSE LET i    == rand_int_frequency_weighted(r1, 0, keyword_len)
             j    == rand_int_frequency_weighted(r2, keyword_len, len)
             temp == At(state, i)
             s1   == [x \in 1 .. len |-> IF x - 1 = i THEN At(state, j) ELSE state[x]]
             s2   == [x \in 1 .. len |->
                         IF x - 1 >= j /\ x - 1 <= len - 2 THEN s1[x + 1] ELSE s1[x]]
             ks   == {k \in keyword_len .. (len - 1) : At(s2, k) > temp \/ k = len - 1}
         IN  IF ks = {} THEN s2
             ELSE LET k == CHOOSE k \in ks : \A k2 \in ks : k <= k2
                  IN  [x \in 1 .. len |->
                          IF x - 1 < k THEN s2[x]
                          ELSE IF x - 1 = k THEN temp
                          ELSE s2[x - 1]]

\* random_keyword, first loop: candidates are drawn from stream position p
\* on until keyword_len distinct letters are held; kw is the prefix, p the
\* stream position after the loop
RECURSIVE RandomPrefix(_, _, _, _)
RandomPrefix(seed, p, keyword, keyword_len) ==
    IF Len(keyword) >= keyword_len THEN [kw |-> keyword, p |-> p]
    ELSE LET candidate == rand_int(RandStream(seed, p), 0, ALPHABET_SIZE)
         IN  IF \E i \in 1 .. Len(keyword) : keyword[i] = candidate
             THEN RandomPrefix(seed, p + 1, keyword, keyword_len)
             ELSE RandomPrefix(seed, p + 1, Append(keyword, candidate), keyword_len)

\* random_keyword: the random prefix, then the letters absent from it in
\* ascending order
random_keyword(seed, p, keyword_len) ==
    LET r == RandomPrefix(seed, p, <<>>, keyword_len)
    IN  [keyword |-> FillUnseen(r.kw, 0), p |-> r.p]

\* all outcomes of one perturbate_keyword call
PerturbedKeywords(state, keyword_len) ==
    {perturbate_keyword(state, ALPHABET_SIZE, keyword_len, w, rs[1], rs[2]) :
        w \in BOOLEAN, rs \in DrawPairs}

\* all outcomes of one perturbate_cycleword call
PerturbedCyclewords(state, len) ==
    {perturbate_cycleword(state, ALPHABET_SIZE, len, rs[1], rs[2]) : rs \in DrawPairs}

(***************************************************************************)
(* The optimal-cycleword deriver and the crib constraint engine.           *)
(***************************************************************************)
INACTIVE == -9999

\* english_monograms, scaled by 10^6
english_monograms ==
    << 85517, 16048, 31644, 38712, 120965, 21815,
       20863, 49557, 73251, 2198, 8087, 42065,
       25263, 71722, 74673, 20662, 1040, 63327,
       67282, 89381, 26816, 10593, 18254, 1914,
       17214, 1138 >>

\* ct_key_lookup[ch] of derive_optimal_cycleword: -1, overwritten by every
\* index holding ch (the last one stays)
ct_key_lookup(ciphertext_kw, ch) ==
    LET hits == {x \in Letters : At(ciphertext_kw, x) = ch}
    IN  IF hits = {} THEN -1 ELSE CHOOSE x \in hits : \A y \in hits : y <= x

\* the plaintext letter derive_optimal_cycleword computes for one ciphertext
\* letter under the trial shift
derive_pt_char(type, var, plaintext_kw, posn_keyword, ct_char, shift) ==
    IF type = PORTA
    THEN IF ct_char < 13
         THEN CRem(ct_char + (shift \div 2), 13) + 13
         ELSE CRem(ct_char - 13 - (shift \div 2) + ALPHABET_SIZE, 13)
    ELSE IF type = BEAUFORT
    THEN CRem(shift - ct_char + ALPHABET_SIZE, ALPHABET_SIZE)
    ELSE IF type = VIGENERE
    THEN IF var
         THEN CRem(shift - ct_char + ALPHABET_SIZE, ALPHABET_SIZE)
         ELSE CRem(ct_char - shift + ALPHABET_SIZE, ALPHABET_SIZE)
    ELSE LET raw == IF var
                    THEN CRem(posn_keyword + shift, ALPHABET_SIZE)
                    ELSE CRem(posn_keyword - shift, ALPHABET_SIZE)
             pt_idx_calc == IF raw < 0 THEN raw + ALPHABET_SIZE ELSE raw
         IN  At(plaintext_kw, pt_idx_calc)

\* the rows of one column that derive_optimal_cycleword counts, as
\* <<ct_char, posn_keyword>>; rows whose letter is missing from the CT
\* alphabet are skipped
RECURSIVE derive_column(_, _, _, _, _)
derive_column(text, ciphertext_kw, len, col, row) ==
    IF row * len + col >= Len(text) THEN <<>>
    ELSE LET ct_char      == At(text, row * len + col)
             posn_keyword == ct_key_lookup(ciphertext_kw, ct_char)
             rest         == derive_column(text, ciphertext_kw, len, col, row + 1)
         IN  IF posn_keyword = -1 THEN rest ELSE <<(<<ct_char, posn_keyword>>)>> \o rest

\* the dot product of a column's letter counts with english_monograms under
\* a trial shift.  The code divides it by the number of counted rows, which
\* is the same for every shift of a column, so the comparison is on the dot
\* product.
RECURSIVE derive_column_score(_, _, _, _, _)
derive_column_score(type, var, plaintext_kw, rows, shift) ==
    IF rows = <<>> THEN 0
    ELSE english_monograms[derive_pt_char(type, var, plaintext_kw,
                                          Head(rows)[2], Head(rows)[1], shift) + 1]
         + derive_column_score(type, var, plaintext_kw, Tail(rows), shift)

\* the loop over the 26 trial shifts of one column: the first shift of the
\* highest score (best_score starts at -1, the test is a strict >)
RECURSIVE derive_best_shift(_, _, _, _, _, _, _)
derive_best_shift(type, var, plaintext_kw, rows, shift, best_shift_index, best_sc) ==
    IF shift >= ALPHABET_SIZE THEN best_shift_index
    ELSE LET sc == derive_column_score(type, var, plaintext_kw, rows, shift)
         IN  IF sc > best_sc
             THEN derive_best_shift(type, var, plaintext_kw, rows, shift + 1, shift, sc)
             ELSE derive_best_shift(type, var, plaintext_kw, rows, shift + 1,
                                    best_shift_index, best_sc)

\* derive_optimal_cycleword: per column the best shift, stored as the
\* CT-alphabet letter at that index
derive_optimal_cycleword(type, var, text, plaintext_kw, ciphertext_kw, len) ==
    [c \in 1 .. len |->
        At(ciphertext_kw,
           derive_best_shift(type, var, plaintext_kw,
                             derive_column(text, ciphertext_kw, len, c - 1, 0),
                             0, 0, -1))]

\* the search loops of constrain_cycleword: the first index holding ch; the
\* variable keeps the value it had when ch is absent
FirstIndexOr(alphabet, ch, stale) ==
    IF \E x \in Letters : At(alphabet, x) = ch THEN Position(alphabet, ch) ELSE stale

\* constrain_cycleword from loop position t = i * n_cribs + j on.
\* st.cw: cycleword_indices, st.act: crib_cyclewords, st.pk / st.pq: the
\* variables posn_keyword / posn_cycleword.
RECURSIVE ConstrainFrom(_, _, _, _, _, _, _, _)
ConstrainFrom(t, st, text, cr, plaintext_kw, ciphertext_kw, len, var) ==
    IF t >= len * Len(cr) THEN [contradiction |-> FALSE, cycleword |-> st.cw]
    ELSE LET i   == t \div Len(cr)
             j   == t % Len(cr)
             pos == cr[j + 1][1]
         IN  IF pos % len # i
             THEN ConstrainFrom(t + 1, st, text, cr, plaintext_kw, ciphertext_kw, len, var)
             ELSE LET crib_char       == cr[j + 1][2]
                      ciphertext_char == At(text, pos)
                      posn_keyword    == FirstIndexOr(ciphertext_kw, ciphertext_char, st.pk)
                      posn_cycleword  == FirstIndexOr(plaintext_kw, crib_char, st.pq)
                      raw  == IF var
                              THEN CRem(posn_cycleword - posn_keyword, ALPHABET_SIZE)
                              ELSE CRem(posn_keyword - posn_cycleword, ALPHABET_SIZE)
                      indx == IF raw < 0 THEN raw + ALPHABET_SIZE ELSE raw
                      letter == At(ciphertext_kw, indx)
                  IN  IF st.act[i + 1] = INACTIVE
                      THEN ConstrainFrom(t + 1,
                               [cw  |-> [st.cw EXCEPT ![i + 1] = letter],
                                act |-> [st.act EXCEPT ![i + 1] = letter],
                                pk  |-> posn_keyword, pq |-> posn_cycleword],
                               text, cr, plaintext_kw, ciphertext_kw, len, var)
                      ELSE IF st.act[i + 1] # letter
                      THEN [contradiction |-> TRUE, cycleword |-> st.cw]
                      ELSE ConstrainFrom(t + 1,
                               [st EXCEPT !.pk = posn_keyword, !.pq = posn_cycleword],
                               text, cr, plaintext_kw, ciphertext_kw, len, var)

\* constrain_cycleword with the two directions of the variant flag exchanged
constrain_cycleword_mut(text, cr, plaintext_kw, ciphertext_kw, cycleword_ix, len, var, junk) ==
    IF Len(cr) = 0 THEN [contradiction |-> FALSE, cycleword |-> cycleword_ix]
    ELSE ConstrainFrom(0, [cw |-> cycleword_ix, act |-> [c \in 1 .. len |-> INACTIVE],
                           pk |-> junk, pq |-> junk],
                       text, cr, plaintext_kw, ciphertext_kw, len, ~var)

\* constrain_cycleword; junk is what posn_keyword and posn_cycleword hold
\* before their first assignment
constrain_cycleword(text, cr, plaintext_kw, ciphertext_kw, cycleword_ix, len, var, junk) ==
    IF Len(cr) = 0 THEN [contradiction |-> FALSE, cycleword |-> cycleword_ix]
    ELSE ConstrainFrom(0, [cw |-> cycleword_ix, act |-> [c \in 1 .. len |-> INACTIVE],
                           pk |-> junk, pq |-> junk],
                       text, cr, plaintext_kw, ciphertext_kw, len, var)

(***************************************************************************)
(* SpecClimber: one call of shotgun_hill_climber.  state_score is a value  *)
(* of Scores chosen at each call (the n-gram table is an input the model   *)
(* does not hold); the decrypted buffer is not modelled.                   *)
(***************************************************************************)
\* largest number of hill-climb turns of a call (n_restarts * n_hill_climbs)
MaxTurns == 2

\* largest value of state_score
MaxScore == 1

Scores == 0 .. MaxScore

AllTypes == {VIGENERE, QUAGMIRE_1, QUAGMIRE_2, QUAGMIRE_3, QUAGMIRE_4, BEAUFORT,
             PORTA, AUTOKEY_0, AUTOKEY_1, AUTOKEY_2, AUTOKEY_3, AUTOKEY_4}

is_autokey(type) == type >= AUTOKEY_0 /\ type <= AUTOKEY_4

\* cfg->user_plaintext_keyword of the runs that pass one: KRYPTOS
user_plaintext_keyword == <<10, 17, 24, 15, 19, 14, 18>>

\* cfg->user_ciphertext_keyword of the runs that pass one: ENIGMAS
user_ciphertext_keyword == <<4, 13, 8, 6, 12, 0, 18>>

\* "if (user keyword present) make_keyed_alphabet else random_keyword"
KeyedOrRandom(present, keyword_str, seed, p, keyword_len) ==
    IF present THEN [keyword |-> make_keyed_alphabet(keyword_str), p |-> p]
    ELSE random_keyword(seed, p, keyword_len)

\* the switch of the random initialisation under one rand() stream, for a
\* cipher type, the two user-keyword flags, and the three length arguments
RandomStateOf(type, user_pt, user_ct, seed, len, pt_len, ct_len) ==
    LET fixed == [keyword |-> straight_alphabet, p |-> 1]
        a == CASE type \in {QUAGMIRE_1, QUAGMIRE_4, AUTOKEY_1, AUTOKEY_3, AUTOKEY_4} ->
                      KeyedOrRandom(user_pt, user_plaintext_keyword, seed, 1, pt_len)
               [] type = QUAGMIRE_3 ->
                      IF user_pt
                      THEN [keyword |-> make_keyed_alphabet(user_plaintext_keyword), p |-> 1]
                      ELSE IF user_ct
                      THEN [keyword |-> make_keyed_alphabet(user_ciphertext_keyword), p |-> 1]
                      ELSE random_keyword(seed, 1, pt_len)
               [] OTHER -> fixed
        b == CASE type \in {QUAGMIRE_2, QUAGMIRE_4, AUTOKEY_2, AUTOKEY_4} ->
                      KeyedOrRandom(user_ct, user_ciphertext_keyword, seed, a.p, ct_len)
               [] type \in {QUAGMIRE_3, AUTOKEY_3, BEAUFORT} -> a
               [] OTHER -> [keyword |-> straight_alphabet, p |-> a.p]
    IN  [pt |-> a.keyword, ct |-> b.keyword,
         cw |-> random_cycleword(seed, b.p, ALPHABET_SIZE, len)]

RandomState(seed) ==
    RandomStateOf(cipher_type, user_plaintext_keyword_present,
                  user_ciphertext_keyword_present, seed, cycleword_len,
                  plaintext_keyword_len, ciphertext_keyword_len)

\* "if (cfg->same_key_cycle)": CT := PT, then the first ALPHABET_SIZE entries
\* of the cycleword := CT
SameKey(st) ==
    IF same_key_cycle
    THEN [st EXCEPT !.ct = st.pt,
                    !.cw = [c \in 1 .. Len(st.cw) |->
                               IF c <= ALPHABET_SIZE THEN st.pt[c] ELSE st.cw[c]]]
    ELSE st

\* the keyword-perturbation condition without its perturbate_keyword_p operand
AttemptOptions_mut ==
    IF cipher_type = BEAUFORT \/ cipher_type = AUTOKEY_0 THEN {FALSE}
    ELSE IF cipher_type = VIGENERE \/ is_autokey(cipher_type)
    THEN {TRUE}
    ELSE BOOLEAN

\* the truth values the keyword-perturbation condition can take
AttemptOptions ==
    IF cipher_type = BEAUFORT \/ cipher_type = AUTOKEY_0 THEN {FALSE}
    ELSE IF perturbate_keyword_p \/ cipher_type = VIGENERE \/ is_autokey(cipher_type)
    THEN {TRUE}
    ELSE BOOLEAN

Unperturbed(a, b) == {[pt |-> a, ct |-> b, did |-> FALSE]}

PerturbPT(a, b) ==
    {[pt |-> q, ct |-> b, did |-> TRUE] : q \in PerturbedKeywords(a, plaintext_keyword_len)}

\* the CT case perturbing the PT alphabet
PerturbCT_mut(a, b) ==
    {[pt |-> q, ct |-> b, did |-> TRUE] : q \in PerturbedKeywords(a, ciphertext_keyword_len)}

PerturbCT(a, b) ==
    {[pt |-> a, ct |-> q, did |-> TRUE] : q \in PerturbedKeywords(b, ciphertext_keyword_len)}

\* perturb PT without the copy to CT
PerturbBoth_mut(a, b) ==
    {[pt |-> q, ct |-> b, did |-> TRUE] : q \in PerturbedKeywords(a, plaintext_keyword_len)}

\* perturb PT and copy it to CT
PerturbBoth(a, b) ==
    {[pt |-> q, ct |-> q, did |-> TRUE] : q \in PerturbedKeywords(a, plaintext_keyword_len)}

\* the switch on cfg->cipher_type that perturbs the keywords the user did not
\* supply
KeywordSwitch(a, b) ==
    CASE cipher_type \in {QUAGMIRE_1, AUTOKEY_1} ->
            IF ~user_plaintext_keyword_present THEN PerturbPT(a, b) ELSE Unperturbed(a, b)
      [] cipher_type \in {QUAGMIRE_2, AUTOKEY_2} ->
            IF ~user_ciphertext_keyword_present THEN PerturbCT(a, b) ELSE Unperturbed(a, b)
      [] cipher_type = QUAGMIRE_3 ->
            IF ~user_plaintext_keyword_present /\ ~user_ciphertext_keyword_present
            THEN PerturbBoth(a, b) ELSE Unperturbed(a, b)
      [] cipher_type = AUTOKEY_3 ->
            IF ~user_plaintext_keyword_present THEN PerturbBoth(a, b) ELSE Unperturbed(a, b)
      [] cipher_type \in {QUAGMIRE_4, AUTOKEY_4} ->
            IF user_plaintext_keyword_present /\ user_ciphertext_keyword_present
            THEN Unperturbed(a, b)
            ELSE IF user_plaintext_keyword_present THEN PerturbCT(a, b)
            ELSE IF user_ciphertext_keyword_present THEN PerturbPT(a, b)
            ELSE PerturbPT(a, b) \cup PerturbCT(a, b)
      [] OTHER -> Unperturbed(a, b)

\* optimal mode, no keyword perturbed this turn: the forced perturbation
ForcedPerturbation(a, b) ==
    CASE cipher_type = QUAGMIRE_3 -> PerturbBoth(a, b)
      [] cipher_type = QUAGMIRE_1 -> PerturbPT(a, b)
      [] cipher_type = QUAGMIRE_2 -> PerturbCT(a, b)
      [] cipher_type = QUAGMIRE_4 -> PerturbPT(a, b) \cup PerturbCT(a, b)
      [] OTHER -> Unperturbed(a, b)

\* optimal mode: forced perturbation, then the derived cycleword
OptimalStep(st) ==
    LET forced == IF ~st.did /\ cipher_type # BEAUFORT /\ cipher_type # VIGENERE
                     /\ cipher_type # PORTA
                  THEN ForcedPerturbation(st.pt, st.ct)
                  ELSE {st}
    IN  {[pt |-> f.pt, ct |-> f.ct,
          cw |-> derive_optimal_cycleword(cipher_type, variant, cipher_indices,
                                          f.pt, f.ct, cycleword_len),
          pkp |-> perturbate_keyword_p, did |-> f.did, contra |-> FALSE] : f \in forced}

\* stochastic mode: cycleword perturbation and the crib contradiction check
StochasticStep(st, cw) ==
    LET cws == IF cipher_type = VIGENERE \/ cipher_type = PORTA
                  \/ is_autokey(cipher_type) \/ ~st.did
               THEN PerturbedCyclewords(cw, cycleword_len)
               ELSE {cw}
    IN  IF cipher_type # VIGENERE /\ cipher_type # BEAUFORT /\ cipher_type # PORTA
           /\ ~is_autokey(cipher_type)
        THEN IF st.did
             THEN {[pt |-> st.pt, ct |-> st.ct, cw |-> r.cycleword, pkp |-> r.contradiction,
                    did |-> TRUE, contra |-> r.contradiction] :
                      r \in {constrain_cycleword(cipher_indices, cribs, st.pt, st.ct, c,
                                                 cycleword_len, variant, junk) :
                                c \in cws, junk \in IndeterminateInts}}
             ELSE {[pt |-> st.pt, ct |-> st.ct, cw |-> c, pkp |-> FALSE,
                    did |-> FALSE, contra |-> FALSE] : c \in cws}
        ELSE {[pt |-> st.pt, ct |-> st.ct, cw |-> c, pkp |-> perturbate_keyword_p,
               did |-> st.did, contra |-> FALSE] : c \in cws}

\* one turn of the hill-climb loop up to the scoring: every local state (and
\* new value of perturbate_keyword_p) the turn can produce from the current one
Mutations(a, b, cw) ==
    LET steps == UNION {IF attempt THEN KeywordSwitch(a, b) ELSE Unperturbed(a, b) :
                           attempt \in AttemptOptions}
        moved == UNION {IF optimal_cycleword /\ ~is_autokey(cipher_type)
                        THEN OptimalStep(st)
                        ELSE StochasticStep(st, cw) : st \in steps}
    IN  {SameKey(m) : m \in moved}

\* the acceptance test reversed: a worse local state is taken
accepts_mut(ls, cs) == ls < cs

\* "if (local_score > current_score)"
accepts(ls, cs) == ls > cs

\* the best test made weak: an equal score replaces the best state
improves_weak(cs, bs) == cs >= bs

\* same test with the sign lost: best follows every change of the score
improves_mut(cs, bs) == cs # bs

\* "if (current_score > best_score)"
improves(cs, bs) == cs > bs

\* the ciphertexts the climber is run on
ClimberTexts == {<<12, 5, 0, 1, 1>>}

\* the crib sets of the runs with cribs: T at position 0 and H at position 2
CribSets == {<<>>, << <<0, 19>>, <<2, 7>> >>}

\* prefix lengths of the keywords the climber has to find
FreeKeywordLens == {2, ALPHABET_SIZE}

\* the cipher type's PT (CT) alphabet is straight
StraightPT(type) == type \in {VIGENERE, QUAGMIRE_2, BEAUFORT, PORTA, AUTOKEY_0, AUTOKEY_2}

StraightCT(type) == type \in {VIGENERE, QUAGMIRE_1, BEAUFORT, PORTA, AUTOKEY_0, AUTOKEY_1}

\* the climber reads the user-keyword flag for this cipher type
ReadsUserPT(type) ==
    type \in {QUAGMIRE_1, QUAGMIRE_3, QUAGMIRE_4, AUTOKEY_1, AUTOKEY_3, AUTOKEY_4}

ReadsUserCT(type) == type \in {QUAGMIRE_2, QUAGMIRE_3, QUAGMIRE_4, AUTOKEY_2, AUTOKEY_4}

QuagmireTypes == {QUAGMIRE_1, QUAGMIRE_2, QUAGMIRE_3, QUAGMIRE_4}

\* cfg->variant is read by the deriver (optimal mode, Vigenere and Quagmire)
\* and by constrain_cycleword (stochastic mode, Quagmire, with cribs)
ReadsVariant ==
    \/ optimal_cycleword /\ cipher_type \in QuagmireTypes \cup {VIGENERE}
    \/ ~optimal_cycleword /\ cipher_type \in QuagmireTypes /\ cribs # <<>>

\* the period the climber is called with
ClimberPeriod == 2

\* the keyword prefix lengths solve_cipher passes: 1 for a straight alphabet,
\* strlen of a user keyword, equal lengths for Quagmire III / Autokey 3
KeywordLenPairs ==
    LET pl == IF StraightPT(cipher_type) THEN {1}
              ELSE IF user_plaintext_keyword_present THEN {Len(user_plaintext_keyword)}
              ELSE FreeKeywordLens
        cl == IF StraightCT(cipher_type) THEN {1}
              ELSE IF user_ciphertext_keyword_present THEN {Len(user_ciphertext_keyword)}
              ELSE FreeKeywordLens
    IN  {pr \in pl \X cl :
            cipher_type \in {QUAGMIRE_3, AUTOKEY_3} => pr[1] = pr[2]}

\* the cipher primitives are not running
IdleCipher ==
    /\ plaintext_keyword_indices = Indeterminate
    /\ ciphertext_keyword_indices = Indeterminate
    /\ cycleword_indices = Indeterminate
    /\ message = <<>>
    /\ buffer = <<>>
    /\ trail = <<>>

\* entry of shotgun_hill_climber.  Fields the cipher type never reads are
\* left at their defaults.
InitClimber ==
    /\ IdleCipher
    /\ IdleSolve
    /\ cipher_type \in AllTypes
    /\ optimal_cycleword \in (IF is_autokey(cipher_type) THEN {TRUE} ELSE BOOLEAN)
    /\ same_key_cycle \in BOOLEAN
    /\ user_plaintext_keyword_present \in
           (IF ReadsUserPT(cipher_type) THEN BOOLEAN ELSE {FALSE})
    /\ user_ciphertext_keyword_present \in
           (IF ReadsUserCT(cipher_type) THEN BOOLEAN ELSE {FALSE})
    /\ n_restarts \in 0 .. MaxTurns
    /\ n_hill_climbs \in 0 .. MaxTurns
    /\ n_restarts * n_hill_climbs <= MaxTurns
    /\ cipher_indices \in ClimberTexts
    /\ cribs \in (IF ~optimal_cycleword /\ cipher_type \in QuagmireTypes
                  THEN CribSets ELSE {<<>>})
    /\ variant \in (IF ReadsVariant THEN BOOLEAN ELSE {FALSE})
    /\ cycleword_len = ClimberPeriod
    /\ \E pr \in KeywordLenPairs :
           /\ plaintext_keyword_len = pr[1]
           /\ ciphertext_keyword_len = pr[2]
    /\ current_plaintext_keyword_state = Indeterminate
    /\ current_ciphertext_keyword_state = Indeterminate
    /\ current_cycleword_state = Indeterminate
    /\ current_score = 0
    /\ local_plaintext_keyword_state = Indeterminate
    /\ local_ciphertext_keyword_state = Indeterminate
    /\ local_cycleword_state = Indeterminate
    /\ local_score = 0
    /\ best_plaintext_keyword_state = Indeterminate
    /\ best_ciphertext_keyword_state = Indeterminate
    /\ best_cycleword_state = Indeterminate
    /\ best_score = 0
    /\ perturbate_keyword_p = FALSE
    /\ did_perturb_keyword = FALSE
    /\ n_contradictions = 0
    /\ restart = 0
    /\ climb = 0
    /\ pc = "restart"
    /\ plaintext_keyword = Indeterminate
    /\ ciphertext_keyword = Indeterminate
    /\ cycleword = Indeterminate
    /\ score = 0

\* head of a restart, backtracking branch: current := best
Backtrack ==
    /\ pc = "restart"
    /\ restart < n_restarts
    /\ best_score > 0
    /\ current_score' = best_score
    /\ current_plaintext_keyword_state' = best_plaintext_keyword_state
    /\ current_ciphertext_keyword_state' = best_ciphertext_keyword_state
    /\ current_cycleword_state' = best_cycleword_state
    /\ perturbate_keyword_p' = TRUE
    /\ climb' = 0
    /\ pc' = "climb"
    /\ UNCHANGED <<plaintext_keyword_len, ciphertext_keyword_len,
                   local_plaintext_keyword_state, local_ciphertext_keyword_state,
                   local_cycleword_state, local_score,
                   best_plaintext_keyword_state, best_ciphertext_keyword_state,
                   best_cycleword_state, best_score, restart,
                   did_perturb_keyword, n_contradictions>>
    /\ UNCHANGED <<vars_cipher, vars_cfg, vars_out, vars_solve>>

\* head of a restart, other branch: a random state, the same-key copies, the
\* derived cycleword in optimal mode, and its score
InitialiseRandom ==
    /\ pc = "restart"
    /\ restart < n_restarts
    /\ \E seed \in Seeds, sc \in Scores :
           LET st == SameKey(RandomState(seed))
           IN  /\ current_plaintext_keyword_state' = st.pt
               /\ current_ciphertext_keyword_state' = st.ct
               /\ current_cycleword_state' =
                      IF optimal_cycleword /\ ~is_autokey(cipher_type)
                      THEN derive_optimal_cycleword(cipher_type, variant, cipher_indices,
                                                    st.pt, st.ct, cycleword_len)
                      ELSE st.cw
               /\ current_score' = sc
    /\ plaintext_keyword_len' =
           IF cipher_type = BEAUFORT THEN ALPHABET_SIZE ELSE plaintext_keyword_len
    /\ ciphertext_keyword_len' =
           IF cipher_type = BEAUFORT THEN ALPHABET_SIZE ELSE ciphertext_keyword_len
    /\ perturbate_keyword_p' = TRUE
    /\ climb' = 0
    /\ pc' = "climb"
    /\ UNCHANGED <<local_plaintext_keyword_state, local_ciphertext_keyword_state,
                   local_cycleword_state, local_score,
                   best_plaintext_keyword_state, best_ciphertext_keyword_state,
                   best_cycleword_state, best_score, restart,
                   did_perturb_keyword, n_contradictions>>
    /\ UNCHANGED <<vars_cipher, vars_cfg, vars_out, vars_solve>>

\* one turn of the hill-climb loop: mutate, score, accept or slip, update best
Iterate ==
    /\ pc = "climb"
    /\ climb < n_hill_climbs
    /\ \E m \in Mutations(current_plaintext_keyword_state,
                          current_ciphertext_keyword_state, current_cycleword_state),
          sc \in Scores, slip \in BOOLEAN :
           LET take == accepts(sc, current_score) \/ slip
               cs   == IF take THEN sc ELSE current_score
               cpt  == IF take THEN m.pt ELSE current_plaintext_keyword_state
               cct  == IF take THEN m.ct ELSE current_ciphertext_keyword_state
               ccw  == IF take THEN m.cw ELSE current_cycleword_state
               up   == improves(cs, best_score)
           IN  /\ local_plaintext_keyword_state' = m.pt
               /\ local_ciphertext_keyword_state' = m.ct
               /\ local_cycleword_state' = m.cw
               /\ local_score' = sc
               /\ perturbate_keyword_p' = m.pkp
               /\ did_perturb_keyword' = m.did
               /\ n_contradictions' = n_contradictions + (IF m.contra THEN 1 ELSE 0)
               /\ current_score' = cs
               /\ current_plaintext_keyword_state' = cpt
               /\ current_ciphertext_keyword_state' = cct
               /\ current_cycleword_state' = ccw
               /\ best_score' = IF up THEN cs ELSE best_score
               /\ best_plaintext_keyword_state' =
                      IF up THEN cpt ELSE best_plaintext_keyword_state
               /\ best_ciphertext_keyword_state' =
                      IF up THEN cct ELSE best_ciphertext_keyword_state
               /\ best_cycleword_state' = IF up THEN ccw ELSE best_cycleword_state
    /\ climb' = climb + 1
    /\ UNCHANGED <<plaintext_keyword_len, ciphertext_keyword_len, restart, pc>>
    /\ UNCHANGED <<vars_cipher, vars_cfg, vars_out, vars_solve>>

\* the hill-climb loop ends: n++
NextRestart ==
    /\ pc = "climb"
    /\ climb >= n_hill_climbs
    /\ restart' = restart + 1
    /\ pc' = "restart"
    /\ UNCHANGED <<plaintext_keyword_len, ciphertext_keyword_len,
                   current_plaintext_keyword_state, current_ciphertext_keyword_state,
                   current_cycleword_state, current_score,
                   local_plaintext_keyword_state, local_ciphertext_keyword_state,
                   local_cycleword_state, local_score,
                   best_plaintext_keyword_state, best_ciphertext_keyword_state,
                   best_cycleword_state, best_score, perturbate_keyword_p, climb,
                   did_perturb_keyword, n_contradictions>>
    /\ UNCHANGED <<vars_cipher, vars_cfg, vars_out, vars_solve>>

\* what the three best arrays hold when nothing was ever copied into them:
\* one fill value, or the arrays an earlier call left in the frame
IndeterminateFramesOf(len) ==
    {[pt |-> [x \in 1 .. ALPHABET_SIZE |-> g], ct |-> [x \in 1 .. ALPHABET_SIZE |-> g],
      cw |-> [x \in 1 .. len |-> g]] : g \in IndeterminateInts}
    \cup {[pt |-> straight_alphabet, ct |-> straight_alphabet,
           cw |-> [x \in 1 .. len |-> x - 1]]}

IndeterminateFrames == IndeterminateFramesOf(cycleword_len)

\* the restart loop ends: best is copied to the caller's buffers and
\* best_score returned (the decrypted buffer is recomputed by the caller from
\* these buffers, see Report)
Return ==
    /\ pc = "restart"
    /\ restart >= n_restarts
    /\ \E fr \in (IF best_plaintext_keyword_state = Indeterminate
                  THEN IndeterminateFrames
                  ELSE {[pt |-> best_plaintext_keyword_state,
                         ct |-> best_ciphertext_keyword_state,
                         cw |-> best_cycleword_state]}) :
           /\ plaintext_keyword' = fr.pt
           /\ ciphertext_keyword' = fr.ct
           /\ cycleword' = fr.cw
    /\ score' = best_score
    /\ pc' = "done"
    /\ UNCHANGED <<plaintext_keyword_len, ciphertext_keyword_len,
                   current_plaintext_keyword_state, current_ciphertext_keyword_state,
                   current_cycleword_state, current_score,
                   local_plaintext_keyword_state, local_ciphertext_keyword_state,
                   local_cycleword_state, local_score,
                   best_plaintext_keyword_state, best_ciphertext_keyword_state,
                   best_cycleword_state, best_score, perturbate_keyword_p,
                   restart, climb, did_perturb_keyword, n_contradictions>>
    /\ UNCHANGED <<vars_cipher, vars_cfg, vars_solve>>

NextClimber == Backtrack \/ InitialiseRandom \/ Iterate \/ NextRestart \/ Return

SpecClimber == InitClimber /\ [][NextClimber]_vars


(***************************************************************************)
(* Claims about the climber.                                               *)
(***************************************************************************)

\* both alphabets of a state are permutations, once the state is written
BothPermutations(pt, ct) ==
    pt # Indeterminate => IsPermutation(pt) /\ IsPermutation(ct)

\* a state is feasible: permutations, and cycleword letters in [0, 26)
Feasible(pt, ct, cw) ==
    /\ pt # Indeterminate /\ ct # Indeterminate /\ cw # Indeterminate
    /\ IsPermutation(pt) /\ IsPermutation(ct)
    /\ \A c \in 1 .. Len(cw) : cw[c] \in Letters

\* C3: in every state of a climber call the current state, the local state
\* and the best state (each once written) hold two alphabets that are
\* permutations of 0..25.
C3_Permutations ==
    /\ BothPermutations(current_plaintext_keyword_state, current_ciphertext_keyword_state)
    /\ BothPermutations(local_plaintext_keyword_state, local_ciphertext_keyword_state)
    /\ BothPermutations(best_plaintext_keyword_state, best_ciphertext_keyword_state)

\* C4: within one climber call best_score never decreases from one step to
\* the next (restart, backtrack, accepted move or slip).
C4_BestMonotone == [][best_score' >= best_score]_vars

\* the best score was set and a later restart or slip left the current score
\* below it
C4_Witness ==
    /\ pc = "climb"
    /\ climb > 0
    /\ best_score > 0
    /\ current_score < best_score

\* C5: the best state is feasible when the climber has returned and copied
\* it out, whatever n_restarts, n_hill_climbs and the scores were.
C5_BestFeasible ==
    pc = "done" => Feasible(plaintext_keyword, ciphertext_keyword, cycleword)

\* an alphabet the user fixed equals the keyed alphabet of the keyword
Fixed(present, keyword_str, state) ==
    present /\ state # Indeterminate => state = make_keyed_alphabet(keyword_str)

\* the -ciphertextkeyword alphabet of the run; Quagmire III has one keyword
\* for both alphabets and takes -plaintextkeyword when both are given
CiphertextKeywordFixed(state) ==
    IF cipher_type = QUAGMIRE_3 /\ user_plaintext_keyword_present
    THEN Fixed(TRUE, user_plaintext_keyword, state)
    ELSE Fixed(user_ciphertext_keyword_present, user_ciphertext_keyword, state)

\* C6: an alphabet fixed with -plaintextkeyword or -ciphertextkeyword equals
\* the keyed alphabet of that keyword in every state the climber scores
\* (local), accepts (current) or emits (best), in both cycleword modes; stated
\* for the runs without -samekey.
C6_UserKeywordFixed ==
    ~same_key_cycle =>
        /\ Fixed(user_plaintext_keyword_present, user_plaintext_keyword,
                 current_plaintext_keyword_state)
        /\ Fixed(user_plaintext_keyword_present, user_plaintext_keyword,
                 local_plaintext_keyword_state)
        /\ Fixed(user_plaintext_keyword_present, user_plaintext_keyword,
                 best_plaintext_keyword_state)
        /\ CiphertextKeywordFixed(current_ciphertext_keyword_state)
        /\ CiphertextKeywordFixed(local_ciphertext_keyword_state)
        /\ CiphertextKeywordFixed(best_ciphertext_keyword_state)


(***************************************************************************)
(* SpecSolve: solve_cipher, from the parsed command line to the report.    *)
(* One climber call is one step; what it returns is summarised by          *)
(* ClimberReturns.                                                         *)
(***************************************************************************)
min(a, b) == IF a < b THEN a ELSE b

max(a, b) == IF a > b THEN a ELSE b

\* the command-line options that set length fields of cfg
apply_option(c, o) ==
    CASE o.opt = "-keywordlen" ->
            [c EXCEPT !.plaintext_keyword_len_present = TRUE,
                      !.ciphertext_keyword_len_present = TRUE,
                      !.plaintext_keyword_len = o.arg,
                      !.ciphertext_keyword_len = o.arg,
                      !.plaintext_max_keyword_len = max(@, 1 + o.arg),
                      !.ciphertext_max_keyword_len = max(@, 1 + o.arg),
                      !.min_keyword_len = o.arg]
      [] o.opt = "-plaintextkeywordlen" ->
            [c EXCEPT !.plaintext_keyword_len_present = TRUE,
                      !.plaintext_keyword_len = o.arg,
                      !.plaintext_max_keyword_len = max(@, 1 + o.arg),
                      !.min_keyword_len = o.arg]
      [] o.opt = "-ciphertextkeywordlen" ->
            [c EXCEPT !.ciphertext_keyword_len_present = TRUE,
                      !.ciphertext_keyword_len = o.arg,
                      !.ciphertext_max_keyword_len = max(@, 1 + o.arg),
                      !.min_keyword_len = o.arg]
      [] o.opt = "-plaintextkeyword" ->
            [c EXCEPT !.user_plaintext_keyword_present = TRUE,
                      !.plaintext_keyword_len = Len(o.arg),
                      !.plaintext_max_keyword_len = Len(o.arg) + 1,
                      !.plaintext_keyword_len_present = TRUE]
      [] o.opt = "-ciphertextkeyword" ->
            [c EXCEPT !.user_ciphertext_keyword_present = TRUE,
                      !.ciphertext_keyword_len = Len(o.arg),
                      !.ciphertext_max_keyword_len = Len(o.arg) + 1,
                      !.ciphertext_keyword_len_present = TRUE]
      [] o.opt = "-nsigmathreshold" ->
            [c EXCEPT !.n_sigma_threshold = o.arg]
      [] o.opt = "-iocthreshold" ->
            [c EXCEPT !.ioc_threshold = o.arg]
      [] o.opt = "-maxcyclewordlen" ->
            [c EXCEPT !.max_cycleword_len = o.arg]
      [] o.opt = "-cyclewordlen" ->
            [c EXCEPT !.cycleword_len_present = TRUE,
                      !.cycleword_len = o.arg,
                      !.max_cycleword_len = max(@, 1 + o.arg)]

\* the argument loop of main: the options are applied in order
RECURSIVE parse_options(_, _)
parse_options(c, argv) ==
    IF argv = <<>> THEN c
    ELSE parse_options(apply_option(c, Head(argv)), Tail(argv))

\* the candidate cycleword (primer) lengths of solve_cipher; est is the list
\* estimate_cycleword_lengths returns
candidate_lengths_mut(type, c, est) ==
    IF c.cycleword_len_present THEN <<c.cycleword_len>>
    ELSE IF is_autokey(type) THEN [x \in 1 .. c.max_cycleword_len |-> x]
    ELSE IF Len(est) = 0 THEN [x \in 1 .. c.max_cycleword_len |-> x]
    ELSE est

candidate_lengths(type, c, est) ==
    IF c.cycleword_len_present THEN <<c.cycleword_len>>
    ELSE IF type >= AUTOKEY_0 /\ type <= AUTOKEY_4
    THEN [x \in 1 .. c.max_cycleword_len |-> x]
    ELSE IF Len(est) = 0 THEN [x \in 1 .. 15 |-> x]
    ELSE est

\* "Keyword constraints": min_kw, pt_max, ct_max, and the keyword lengths
\* forced to 1 in cfg for the straight alphabets
keyword_limits(type, c) ==
    LET m  == IF type \in {VIGENERE, BEAUFORT, PORTA, AUTOKEY_0, AUTOKEY_1, AUTOKEY_2,
                           QUAGMIRE_1, QUAGMIRE_2}
              THEN 1 ELSE c.min_keyword_len
        pm == c.plaintext_max_keyword_len
        cm == c.ciphertext_max_keyword_len
    IN  IF type \in {VIGENERE, AUTOKEY_0, PORTA}
        THEN [min_kw |-> m, pt_max |-> 2, ct_max |-> 2,
              cfg |-> [c EXCEPT !.plaintext_keyword_len = 1,
                                !.ciphertext_keyword_len = 1]]
        ELSE IF type = BEAUFORT
        THEN [min_kw |-> m, pt_max |-> 2, ct_max |-> cm,
              cfg |-> [c EXCEPT !.plaintext_keyword_len = 1]]
        ELSE IF type \in {QUAGMIRE_1, AUTOKEY_1}
        THEN [min_kw |-> m, pt_max |-> pm, ct_max |-> 2,
              cfg |-> [c EXCEPT !.ciphertext_keyword_len = 1]]
        ELSE IF type \in {QUAGMIRE_2, AUTOKEY_2}
        THEN [min_kw |-> m, pt_max |-> 2, ct_max |-> cm,
              cfg |-> [c EXCEPT !.plaintext_keyword_len = 1]]
        ELSE [min_kw |-> m, pt_max |-> pm, ct_max |-> cm, cfg |-> c]

\* the "continue" tests at the head of the loop body, without the test on
\* Quagmire III
skipped_mut(type, c, j, k) ==
    \/ c.plaintext_keyword_len_present /\ j # c.plaintext_keyword_len
    \/ c.ciphertext_keyword_len_present /\ k # c.ciphertext_keyword_len
    \/ type \in {BEAUFORT, VIGENERE, PORTA, AUTOKEY_0} /\ ~(j = 1 /\ k = 1)
    \/ type = AUTOKEY_1 /\ k # 1
    \/ type = AUTOKEY_2 /\ j # 1
    \/ type = AUTOKEY_3 /\ j # k

\* the "continue" tests at the head of the loop body
skipped(type, c, j, k) ==
    \/ c.plaintext_keyword_len_present /\ j # c.plaintext_keyword_len
    \/ c.ciphertext_keyword_len_present /\ k # c.ciphertext_keyword_len
    \/ type = QUAGMIRE_3 /\ j # k
    \/ type = BEAUFORT /\ ~(j = 1 /\ k = 1)
    \/ type = VIGENERE /\ ~(j = 1 /\ k = 1)
    \/ type = PORTA /\ ~(j = 1 /\ k = 1)
    \/ type = AUTOKEY_0 /\ ~(j = 1 /\ k = 1)
    \/ type = AUTOKEY_1 /\ k # 1
    \/ type = AUTOKEY_2 /\ j # 1
    \/ type = AUTOKEY_3 /\ j # k

\* the j and k loops: the pairs that pass the tests, in the order the loops
\* reach them
keyword_pairs(type, c, m, pm, cm) ==
    LET j0 == min(m, c.plaintext_keyword_len)
        k0 == min(m, c.ciphertext_keyword_len)
        rows == max(pm - j0, 0)
        cols == max(cm - k0, 0)
        all == [n \in 1 .. (rows * cols) |->
                   <<j0 + ((n - 1) \div cols), k0 + ((n - 1) % cols)>>]
        passes(pr) == ~skipped(type, c, pr[1], pr[2])
    IN  SelectSeq(all, passes)

\* CRIB_CHECK of polyalphabetic.h
CRIB_CHECK == 0

\* cribs_satisfied_p: within every column of the period no crib letter meets
\* two ciphertext letters and no ciphertext letter two crib letters
cribs_satisfied_p(text, cr, len) ==
    \/ Len(cr) = 0
    \/ \A col \in 0 .. (len - 1) :
           LET seen == {<<cr[n][2], At(text, cr[n][1])>> :
                           n \in {n \in 1 .. Len(cr) :
                                     /\ cr[n][1] < Len(text)
                                     /\ cr[n][1] % len = col}}
           IN  \A p \in seen, q \in seen : (p[1] = q[1]) = (p[2] = q[2])

\* "Check Crib compatibility": the triple is left with continue
crib_check_skips(type, text, cr, len) ==
    /\ ~is_autokey(type)
    /\ ~cribs_satisfied_p(text, cr, len)
    /\ CRIB_CHECK # 0

\* what one call of shotgun_hill_climber hands back: the score 0 with the
\* best arrays never written, or a positive score with a state it built
ClimberReturns(type, user_pt, user_ct, len, pt_len, ct_len) ==
    {[score |-> 0, pt |-> fr.pt, ct |-> fr.ct, cw |-> fr.cw] :
        fr \in IndeterminateFramesOf(len)}
    \cup {[score |-> sc, pt |-> st.pt, ct |-> st.ct, cw |-> st.cw] :
             sc \in 1 .. MaxScore,
             st \in {RandomStateOf(type, user_pt, user_ct, seed, len, pt_len, ct_len) :
                        seed \in Seeds}}

\* the length of solve_cipher's arrays cycleword and best_cycleword
CyclewordCapacity == ALPHABET_SIZE

\* an alphabet array whose first entries the end of a longer cycleword was
\* written over
Overwritten(a, cw) ==
    [x \in 1 .. ALPHABET_SIZE |->
        IF CyclewordCapacity + x <= Len(cw) THEN cw[CyclewordCapacity + x] ELSE a[x]]

\* what solve_cipher's three buffers hold after the copies at the end of
\* shotgun_hill_climber: the alphabets, then cycleword_len letters of the
\* cycleword.  Past the end of cycleword[] the letters land in whatever the
\* frame holds there: nothing that is read again, or one of the alphabets.
CopyOut(r) ==
    IF Len(r.cw) <= CyclewordCapacity THEN {r}
    ELSE {r, [r EXCEPT !.ct = Overwritten(r.ct, r.cw)],
             [r EXCEPT !.pt = Overwritten(r.pt, r.cw)]}

\* vec_copy(cycleword, best_cycleword, ALPHABET_SIZE): the entries of the
\* cycleword that best_cycleword[] takes
Retained(cw) == SubSeq(cw, 1, min(Len(cw), CyclewordCapacity))

\* what a periodic decrypt leaves in the buffer when a letter it looks up is
\* missing from the CT alphabet: the search loop sets no position
IndeterminateTexts(n) == {[x \in 1 .. n |-> g] : g \in IndeterminateInts}

\* every letter quagmire_decrypt looks up in the CT alphabet is there
Findable(text, ciphertext_kw, cw) ==
    \A i \in 1 .. Len(text) :
        /\ \E x \in Letters : At(ciphertext_kw, x) = text[i]
        /\ \E x \in Letters : At(ciphertext_kw, x) = At(cw, (i - 1) % Len(cw))

\* best_cycleword[0 .. len) as the final decrypt reads it: the retained
\* entries, and past the end of the array whatever is there
ReadCycleword(cw, len, junk) ==
    [x \in 1 .. len |-> IF x <= Len(cw) THEN cw[x] ELSE junk]

\* "if (score > best_score)"
retains(sc, bs) == sc > bs

\* the first index of alphabet holding ch, or -1
posn_or_minus1(alphabet, ch) ==
    IF \E x \in 1 .. Len(alphabet) : alphabet[x] = ch
    THEN (CHOOSE x \in 1 .. Len(alphabet) :
             /\ alphabet[x] = ch
             /\ \A y \in 1 .. (x - 1) : alphabet[y] # ch) - 1
    ELSE -1

\* autokey_decrypt from text position Len(decrypted) on; junk is what an
\* entry of key_stream holds that was never written
RECURSIVE autokey_loop(_, _, _, _, _, _)
autokey_loop(cipher_ix, plaintext_kw, ciphertext_kw, key_stream, decrypted, junk) ==
    IF Len(decrypted) >= Len(cipher_ix) THEN decrypted
    ELSE LET i == Len(decrypted) + 1
             posn_keyword == posn_or_minus1(ciphertext_kw, cipher_ix[i])
             k_char == IF i <= Len(key_stream) THEN key_stream[i] ELSE junk
             posn_key_char == posn_or_minus1(ciphertext_kw, k_char)
             raw == CRem(posn_keyword - posn_key_char, ALPHABET_SIZE)
             indx == IF raw < 0 THEN raw + ALPHABET_SIZE ELSE raw
             p_val == At(plaintext_kw, indx)
         IN  IF posn_keyword = -1 \/ posn_key_char = -1
             THEN autokey_loop(cipher_ix, plaintext_kw, ciphertext_kw, key_stream,
                               Append(decrypted, 0), junk)
             ELSE autokey_loop(cipher_ix, plaintext_kw, ciphertext_kw,
                               Append(key_stream, p_val), Append(decrypted, p_val), junk)

autokey_decrypt(cipher_ix, plaintext_kw, ciphertext_kw, primer_indices, primer_len, junk) ==
    autokey_loop(cipher_ix, plaintext_kw, ciphertext_kw,
                 SubSeq(primer_indices, 1, primer_len), <<>>, junk)

\* largest period a command line asks for
MaxPeriod == 2

\* the keyword length a command line asks for
KeywordLenArg == 2

\* largest number of climber calls of a run
MaxInvocations == 15

\* the keyword options of the command lines
KeywordOptions ==
    {<<>>,
     << [opt |-> "-keywordlen", arg |-> KeywordLenArg] >>,
     << [opt |-> "-plaintextkeywordlen", arg |-> KeywordLenArg] >>,
     << [opt |-> "-ciphertextkeywordlen", arg |-> KeywordLenArg] >>,
     << [opt |-> "-plaintextkeyword", arg |-> user_plaintext_keyword] >>,
     << [opt |-> "-ciphertextkeyword", arg |-> user_ciphertext_keyword] >>,
     << [opt |-> "-plaintextkeyword", arg |-> user_plaintext_keyword],
        [opt |-> "-ciphertextkeyword", arg |-> user_ciphertext_keyword] >>}

\* a period a command line asks for that is longer than the alphabet
LongPeriod == 27

\* the cycleword options of the command lines
CyclewordOptions ==
    {<< [opt |-> "-maxcyclewordlen", arg |-> MaxPeriod] >>}
    \cup {<< [opt |-> "-cyclewordlen", arg |-> len] >> : len \in 1 .. MaxPeriod}

CommandLines ==
    {a \o b : a \in KeywordOptions, b \in CyclewordOptions}
    \cup {<< [opt |-> "-cyclewordlen", arg |-> LongPeriod] >>}

\* the lists the estimator yields on the bounded texts: none, one period, two
EstimatedLists == {<<>>, <<2>>, <<2, 1>>}

\* '_' - 'A'
UNDERSCORE == 30

\* "Process Cribs": the positions and letters of the crib line; a line whose
\* length differs from the ciphertext's is ignored
process_cribs(cribtext, cipher_len) ==
    IF Len(cribtext) > 0 /\ Len(cribtext) # cipher_len THEN <<>>
    ELSE LET all == [i \in 1 .. Len(cribtext) |-> <<i - 1, cribtext[i]>>]
             known(pr) == pr[2] # UNDERSCORE
         IN  SelectSeq(all, known)

\* crib lines of the runs: none; ___AB (the text holds one letter at both
\* positions, so period 1 is incompatible); AB, shorter than the text
SolveCribTexts ==
    {<<>>, <<UNDERSCORE, UNDERSCORE, UNDERSCORE, 0, 1>>, <<0, 1>>}

\* the number of climber calls a configuration leads to
Invocations(type, c, est) ==
    LET lim == keyword_limits(type, c)
    IN  Len(candidate_lengths(type, c, est))
        * Len(keyword_pairs(type, lim.cfg, lim.min_kw, lim.pt_max, lim.ct_max))

\* entry of solve_cipher with the configuration main has parsed
InitSolve ==
    /\ IdleCipher
    /\ cipher_type \in AllTypes
    /\ variant = FALSE
    /\ optimal_cycleword = TRUE
    /\ same_key_cycle = FALSE
    /\ n_restarts = 1
    /\ n_hill_climbs = 0
    /\ cipher_indices \in ClimberTexts
    /\ cribtext_str \in (IF is_autokey(cipher_type) THEN {<<>>} ELSE SolveCribTexts)
    /\ cribs = <<>>
    /\ estimator = estimator_locals
    /\ cfg \in {parse_options(init_config, argv) : argv \in CommandLines}
    /\ user_plaintext_keyword_present = cfg.user_plaintext_keyword_present
    /\ user_ciphertext_keyword_present = cfg.user_ciphertext_keyword_present
    /\ estimated \in (IF cfg.cycleword_len_present \/ is_autokey(cipher_type)
                      THEN {<<>>} ELSE EstimatedLists)
    /\ Invocations(cipher_type, cfg, estimated) <= MaxInvocations
    /\ estimator_ran = FALSE
    /\ cycleword_lengths = <<>>
    /\ min_kw = 0
    /\ pt_max = 0
    /\ ct_max = 0
    /\ visit = 0
    /\ solve_best = solve_locals
    /\ max_returned = 0
    /\ best_decrypted = Indeterminate
    /\ cycleword_len = 0
    /\ plaintext_keyword_len = 0
    /\ ciphertext_keyword_len = 0
    /\ current_plaintext_keyword_state = Indeterminate
    /\ current_ciphertext_keyword_state = Indeterminate
    /\ current_cycleword_state = Indeterminate
    /\ current_score = 0
    /\ local_plaintext_keyword_state = Indeterminate
    /\ local_ciphertext_keyword_state = Indeterminate
    /\ local_cycleword_state = Indeterminate
    /\ local_score = 0
    /\ best_plaintext_keyword_state = Indeterminate
    /\ best_ciphertext_keyword_state = Indeterminate
    /\ best_cycleword_state = Indeterminate
    /\ best_score = 0
    /\ perturbate_keyword_p = FALSE
    /\ did_perturb_keyword = FALSE
    /\ n_contradictions = 0
    /\ restart = 0
    /\ climb = 0
    /\ pc = "setup"
    /\ plaintext_keyword = Indeterminate
    /\ ciphertext_keyword = Indeterminate
    /\ cycleword = Indeterminate
    /\ score = 0

climber_locals == <<current_plaintext_keyword_state, current_ciphertext_keyword_state,
                    current_cycleword_state, current_score,
                    local_plaintext_keyword_state, local_ciphertext_keyword_state,
                    local_cycleword_state, local_score,
                    best_plaintext_keyword_state, best_ciphertext_keyword_state,
                    best_cycleword_state, best_score,
                    perturbate_keyword_p, did_perturb_keyword, n_contradictions,
                    restart, climb>>

solve_inputs == <<optimal_cycleword, same_key_cycle, user_plaintext_keyword_present,
                  user_ciphertext_keyword_present, n_restarts, n_hill_climbs,
                  cipher_indices, cribtext_str, estimated, estimator>>

\* the crib processing, the cycleword length setup and the keyword constraints
Setup ==
    /\ pc = "setup"
    /\ cribs' = process_cribs(cribtext_str, Len(cipher_indices))
    /\ cycleword_lengths' = candidate_lengths(cipher_type, cfg, estimated)
    /\ estimator_ran' = (~cfg.cycleword_len_present /\ ~is_autokey(cipher_type))
    /\ LET lim == keyword_limits(cipher_type, cfg)
       IN  /\ min_kw' = lim.min_kw
           /\ pt_max' = lim.pt_max
           /\ ct_max' = lim.ct_max
           /\ cfg' = lim.cfg
    /\ solve_best' = [solve_best EXCEPT !.best_score = 0]
    /\ pc' = "loop"
    /\ UNCHANGED <<visit, max_returned, best_decrypted, cycleword_len,
                   plaintext_keyword_len, ciphertext_keyword_len>>
    /\ UNCHANGED <<vars_cipher, solve_inputs, climber_locals, vars_out>>

\* the loops advance to the next triple that passes the tests; the climber
\* runs on it and the result is retained if its score is larger
Visit ==
    /\ pc = "loop"
    /\ LET pairs == keyword_pairs(cipher_type, cfg, min_kw, pt_max, ct_max)
           len   == cycleword_lengths[(visit \div Len(pairs)) + 1]
           pr    == pairs[(visit % Len(pairs)) + 1]
       IN  /\ visit < Len(cycleword_lengths) * Len(pairs)
           /\ IF crib_check_skips(cipher_type, cipher_indices, cribs, len)
              THEN UNCHANGED <<cycleword_len, plaintext_keyword_len,
                               ciphertext_keyword_len, vars_out, solve_best,
                               max_returned>>
              ELSE \E r \in UNION {CopyOut(ret) :
                                       ret \in ClimberReturns(cipher_type,
                                                   user_plaintext_keyword_present,
                                                   user_ciphertext_keyword_present,
                                                   len, pr[1], pr[2])} :
                       /\ cycleword_len' = len
                       /\ plaintext_keyword_len' = pr[1]
                       /\ ciphertext_keyword_len' = pr[2]
                       /\ score' = r.score
                       /\ plaintext_keyword' = r.pt
                       /\ ciphertext_keyword' = r.ct
                       /\ cycleword' = r.cw
                       /\ max_returned' = max(max_returned, r.score)
                       /\ solve_best' =
                              IF retains(r.score, solve_best.best_score)
                              THEN [best_score |-> r.score,
                                    best_cycleword_length |-> len,
                                    best_plaintext_keyword_length |-> pr[1],
                                    best_ciphertext_keyword_length |-> pr[2],
                                    best_plaintext_keyword |-> r.pt,
                                    best_ciphertext_keyword |-> r.ct,
                                    best_cycleword |-> Retained(r.cw)]
                              ELSE solve_best
    /\ visit' = visit + 1
    /\ UNCHANGED <<cfg, estimator_ran, cycleword_lengths, min_kw, pt_max, ct_max,
                   best_decrypted, pc, cribs>>
    /\ UNCHANGED <<vars_cipher, solve_inputs, climber_locals>>

\* "Final decryption for the best state".  With nothing retained the period
\* is 0: the periodic primitives divide by it and the process traps; the
\* autokey primitive reads the best arrays as the frame left them.
Report ==
    /\ pc = "loop"
    /\ visit >= Len(cycleword_lengths)
                    * Len(keyword_pairs(cipher_type, cfg, min_kw, pt_max, ct_max))
    /\ IF ~is_autokey(cipher_type) /\ solve_best.best_cycleword_length = 0
       THEN /\ pc' = "trap"
            /\ UNCHANGED best_decrypted
       ELSE /\ pc' = "done"
            /\ \E fr \in (IF solve_best.best_plaintext_keyword = Indeterminate
                          THEN IndeterminateFramesOf(0)
                          ELSE {[pt |-> solve_best.best_plaintext_keyword,
                                 ct |-> solve_best.best_ciphertext_keyword,
                                 cw |-> solve_best.best_cycleword]}),
                  junk \in IndeterminateInts :
                   LET len == solve_best.best_cycleword_length
                       cw  == ReadCycleword(fr.cw, len, junk)
                   IN  IF is_autokey(cipher_type)
                       THEN best_decrypted' =
                                autokey_decrypt(cipher_indices, fr.pt, fr.ct, cw, len, junk)
                       ELSE IF cipher_type \in QuagmireTypes
                               /\ ~Findable(cipher_indices, fr.ct, cw)
                       THEN best_decrypted' \in IndeterminateTexts(Len(cipher_indices))
                       ELSE best_decrypted' =
                                decrypt_text(cipher_type, cipher_indices, fr.pt, fr.ct,
                                             cw, variant)
    /\ UNCHANGED <<cfg, estimator_ran, cycleword_lengths, min_kw, pt_max, ct_max,
                   visit, solve_best, max_returned, cycleword_len,
                   plaintext_keyword_len, ciphertext_keyword_len, cribs>>
    /\ UNCHANGED <<vars_cipher, solve_inputs, climber_locals, vars_out>>

NextSolve == Setup \/ Visit \/ Report

SpecSolve == InitSolve /\ [][NextSolve]_vars

(***************************************************************************)
(* Claims about solve_cipher.                                              *)
(***************************************************************************)

\* C7: for a non-autokey cipher the climber is never invoked with a period
\* the crib precheck reports incompatible, and such a period is never the
\* retained one.
C7_PrecheckSkips ==
    ~is_autokey(cipher_type) =>
        /\ visit > 0 => cribs_satisfied_p(cipher_indices, cribs, cycleword_len)
        /\ solve_best.best_cycleword_length # 0 =>
               cribs_satisfied_p(cipher_indices, cribs, solve_best.best_cycleword_length)

\* the periods of cycleword_lengths
Periods == {cycleword_lengths[n] : n \in 1 .. Len(cycleword_lengths)}

\* C8: once all triples are visited (and the climber ran at all) the
\* retained result is that of a climber invocation with the largest returned
\* score: its score is that maximum, its period is one the climber was
\* invoked with, and its alphabets and cycleword were written by a call.
C8_RetainedIsMaximal ==
    pc \in {"done", "trap"} /\ visit > 0 =>
        /\ solve_best.best_score = max_returned
        /\ solve_best.best_cycleword_length \in Periods
        /\ solve_best.best_plaintext_keyword # Indeterminate
        /\ solve_best.best_ciphertext_keyword # Indeterminate
        /\ Len(solve_best.best_cycleword) = solve_best.best_cycleword_length

\* the keyword prefix length pairs a cipher type permits
Permitted(type, pt_len, ct_len) ==
    /\ type \in {VIGENERE, PORTA, BEAUFORT, AUTOKEY_0} => pt_len = 1 /\ ct_len = 1
    /\ type \in {QUAGMIRE_1, AUTOKEY_1} => ct_len = 1
    /\ type \in {QUAGMIRE_2, AUTOKEY_2} => pt_len = 1
    /\ type \in {QUAGMIRE_3, AUTOKEY_3} => pt_len = ct_len
    /\ type \in {QUAGMIRE_4, AUTOKEY_4} => pt_len < pt_max /\ ct_len < ct_max

\* C9: every climber invocation is made with a keyword prefix length pair
\* the cipher type permits.
C9_PermittedPairs ==
    visit > 0 => Permitted(cipher_type, plaintext_keyword_len, ciphertext_keyword_len)

\* Quagmire III with the plaintext length fixed and the ciphertext length
\* free: the k loop ran over several lengths for every period and the climber
\* was called once per period, on the equal pair
C9_Witness ==
    /\ cipher_type = QUAGMIRE_3
    /\ cfg.plaintext_keyword_len_present
    /\ ~cfg.ciphertext_keyword_len_present
    /\ pc = "done"
    /\ visit = Len(cycleword_lengths)
    /\ visit > 1

\* C10: the candidate periods are the requested length alone when one was
\* given; else 1..L_max for the autokey family, the estimator not being run;
\* else the estimator's list when it is not empty; else 1..15.
C10_CandidatePeriods ==
    pc # "setup" =>
        IF cfg.cycleword_len_present
        THEN cycleword_lengths = <<cfg.cycleword_len>>
        ELSE IF cipher_type \in {AUTOKEY_0, AUTOKEY_1, AUTOKEY_2, AUTOKEY_3, AUTOKEY_4}
        THEN /\ ~estimator_ran
             /\ Len(cycleword_lengths) = cfg.max_cycleword_len
             /\ \A n \in 1 .. cfg.max_cycleword_len : cycleword_lengths[n] = n
        ELSE IF estimated # <<>>
        THEN estimator_ran /\ cycleword_lengths = estimated
        ELSE /\ estimator_ran
             /\ Len(cycleword_lengths) = 15
             /\ \A n \in 1 .. 15 : cycleword_lengths[n] = n

\* the estimator accepted nothing and all fifteen fallback periods were
\* visited
C10_Witness ==
    /\ pc \in {"done", "trap"}
    /\ estimator_ran
    /\ estimated = <<>>
    /\ visit >= 15

\* C14: a crib line whose length differs from the ciphertext's aborts the
\* session: no period estimation and no climber invocation happens for it.
C14_CribMismatchAborts ==
    Len(cribtext_str) > 0 /\ Len(cribtext_str) # Len(cipher_indices) =>
        ~estimator_ran /\ visit = 0

(***************************************************************************)
(* SpecEstimate: estimate_cycleword_lengths on a ciphertext, and the       *)
(* fallback of solve_cipher on what it returns.                            *)
(***************************************************************************)

\* longest ciphertext handed to the estimator
MaxEstimatorLen == 5

\* largest -maxcyclewordlen of the estimator runs
MaxTrialPeriod == 3

\* tally: frequencies[x]
tally(plaintext, x) == Cardinality({i \in 1 .. Len(plaintext) : plaintext[i] = x})

\* the sum of frequencies[i]*(frequencies[i] - 1) from letter i on
RECURSIVE ioc_sum(_, _)
ioc_sum(plaintext, i) ==
    IF i >= ALPHABET_SIZE THEN 0
    ELSE tally(plaintext, i) * (tally(plaintext, i) - 1) + ioc_sum(plaintext, i + 1)

\* index_of_coincidence: ioc /= len*(len - 1); for len < 2 that is 0.0 / 0
index_of_coincidence(plaintext) ==
    DDiv(Dbl(ioc_sum(plaintext, 0), 1), Dbl(Len(plaintext) * (Len(plaintext) - 1), 1))

\* caesar_column as mean_ioc fills it for column k: text[len_cycleword*i + k]
caesar_column(text, len_cycleword, k) ==
    LET count == IF k >= Len(text) THEN 0
                 ELSE ((Len(text) - 1 - k) \div len_cycleword) + 1
    IN  [i \in 1 .. count |-> At(text, len_cycleword * (i - 1) + k)]

\* weighted_ioc of mean_ioc after the columns k .. len_cycleword - 1
RECURSIVE weighted_ioc(_, _, _)
weighted_ioc(text, len_cycleword, k) ==
    IF k >= len_cycleword THEN Zero
    ELSE DAdd(index_of_coincidence(caesar_column(text, len_cycleword, k)),
              weighted_ioc(text, len_cycleword, k + 1))

mean_ioc(text, len_cycleword) ==
    DDiv(weighted_ioc(text, len_cycleword, 0), Dbl(len_cycleword, 1))

\* the sum of the doubles f[i], i from n on
RECURSIVE sum_from(_, _)
sum_from(f, n) == IF n > Len(f) THEN Zero ELSE DAdd(f[n], sum_from(f, n + 1))

\* x*|x|: a monotone image of x, used to compare against a square root
signed_square(x) == IF x.nan THEN NaN ELSE Dbl(Sign(x.n) * x.n * x.n, x.d * x.d)

\* the z-score with 1.0 where the deviation is 0
z_score_mut(current_ioc, mean, std_dev_sq) ==
    IF DGreater(std_dev_sq, Zero)
    THEN DDiv(signed_square(DSub(current_ioc, mean)), std_dev_sq)
    ELSE Dbl(1, 1)

\* (current_ioc - mean) / std_dev when std_dev > 0, else 0.0; held as its
\* signed square, std_dev as its square
z_score(current_ioc, mean, std_dev_sq) ==
    IF DGreater(std_dev_sq, Zero)
    THEN DDiv(signed_square(DSub(current_ioc, mean)), std_dev_sq)
    ELSE Zero

\* compare_candidates
compare_candidates(cA, cB) ==
    IF DLess(cA.ioc, cB.ioc) THEN 1
    ELSE IF DGreater(cA.ioc, cB.ioc) THEN -1
    ELSE 0

\* the orders qsort may leave the candidates in: every arrangement in which
\* no element is followed by one that compares before it
qsort(candidates) ==
    LET n == Len(candidates)
        arrangements == {q \in [1 .. n -> 1 .. n] :
                            \A a, b \in 1 .. n : a # b => q[a] # q[b]}
    IN  {[i \in 1 .. n |-> candidates[q[i]]] :
            q \in {q \in arrangements :
                      \A a, b \in 1 .. n :
                          a < b => compare_candidates(candidates[q[a]],
                                                      candidates[q[b]]) <= 0}}

\* estimate_cycleword_lengths: the arrays it computes and the lists it may
\* return
estimate_cycleword_lengths(text, max_cycleword_len, n_sigma_threshold, ioc_threshold) ==
    LET raw_iocs == [c \in 1 .. max_cycleword_len |-> mean_ioc(text, c)]
        sum      == sum_from(raw_iocs, 1)
        sum_sq   == sum_from([c \in 1 .. max_cycleword_len |->
                                 DMul(raw_iocs[c], raw_iocs[c])], 1)
        mean     == DDiv(sum, Dbl(max_cycleword_len, 1))
        variance == DSub(DDiv(sum_sq, Dbl(max_cycleword_len, 1)), DMul(mean, mean))
        std_dev_sq == IF DGreater(variance, Zero) THEN variance ELSE Zero
        z_scores == [c \in 1 .. max_cycleword_len |->
                        z_score(raw_iocs[c], mean, std_dev_sq)]
        all      == [c \in 1 .. max_cycleword_len |->
                        [len |-> c, ioc |-> raw_iocs[c], z_score |-> z_scores[c]]]
        accepted(cand) ==
            /\ DGeq(cand.z_score, signed_square(n_sigma_threshold))
            /\ DGeq(cand.ioc, ioc_threshold)
    IN  {[raw_iocs |-> raw_iocs, z_scores |-> z_scores, std_dev_sq |-> std_dev_sq,
          cycleword_lengths |-> [i \in 1 .. Len(sorted) |-> sorted[i].len]] :
            sorted \in qsort(SelectSeq(all, accepted))}

\* the ciphertexts of the estimator runs
EstimatorTexts == SeqsUpTo({0, 1}, MaxEstimatorLen)

\* the command lines of the estimator runs: the trial range, and the sigma
\* threshold left at 1.0 or set to 0
EstimatorCommandLines ==
    {<< [opt |-> "-maxcyclewordlen", arg |-> m] >> \o t :
        m \in 1 .. MaxTrialPeriod,
        t \in {<<>>, << [opt |-> "-nsigmathreshold", arg |-> Zero] >>}}

\* entry of solve_cipher for a periodic cipher without -cyclewordlen
InitEstimate ==
    /\ IdleCipher
    /\ cipher_type = VIGENERE
    /\ variant = FALSE
    /\ optimal_cycleword = TRUE
    /\ same_key_cycle = FALSE
    /\ user_plaintext_keyword_present = FALSE
    /\ user_ciphertext_keyword_present = FALSE
    /\ n_restarts = 1
    /\ n_hill_climbs = 0
    /\ cipher_indices \in EstimatorTexts
    /\ cribs = <<>>
    /\ cycleword_len = 0
    /\ plaintext_keyword_len = 0
    /\ ciphertext_keyword_len = 0
    /\ current_plaintext_keyword_state = Indeterminate
    /\ current_ciphertext_keyword_state = Indeterminate
    /\ current_cycleword_state = Indeterminate
    /\ current_score = 0
    /\ local_plaintext_keyword_state = Indeterminate
    /\ local_ciphertext_keyword_state = Indeterminate
    /\ local_cycleword_state = Indeterminate
    /\ local_score = 0
    /\ best_plaintext_keyword_state = Indeterminate
    /\ best_ciphertext_keyword_state = Indeterminate
    /\ best_cycleword_state = Indeterminate
    /\ best_score = 0
    /\ perturbate_keyword_p = FALSE
    /\ did_perturb_keyword = FALSE
    /\ n_contradictions = 0
    /\ restart = 0
    /\ climb = 0
    /\ pc = "estimate"
    /\ plaintext_keyword = Indeterminate
    /\ ciphertext_keyword = Indeterminate
    /\ cycleword = Indeterminate
    /\ score = 0
    /\ cfg \in {parse_options(init_config, argv) : argv \in EstimatorCommandLines}
    /\ estimated = <<>>
    /\ estimator_ran = FALSE
    /\ cycleword_lengths = <<>>
    /\ min_kw = 0
    /\ pt_max = 0
    /\ ct_max = 0
    /\ visit = 0
    /\ solve_best = solve_locals
    /\ max_returned = 0
    /\ best_decrypted = Indeterminate
    /\ cribtext_str = <<>>
    /\ estimator = estimator_locals

\* the call of estimate_cycleword_lengths
Estimate ==
    /\ pc = "estimate"
    /\ \E r \in estimate_cycleword_lengths(cipher_indices, cfg.max_cycleword_len,
                                           cfg.n_sigma_threshold, cfg.ioc_threshold) :
           /\ estimator' = [raw_iocs |-> r.raw_iocs, z_scores |-> r.z_scores,
                            std_dev_sq |-> r.std_dev_sq]
           /\ estimated' = r.cycleword_lengths
    /\ estimator_ran' = TRUE
    /\ pc' = "fallback"
    /\ UNCHANGED <<cfg, cycleword_lengths, min_kw, pt_max, ct_max, visit, solve_best,
                   max_returned, best_decrypted, cribtext_str>>
    /\ UNCHANGED <<vars_cipher, vars_cfg, climber_locals, vars_out,
                   plaintext_keyword_len, ciphertext_keyword_len>>

\* "Fallback": the candidate lengths solve_cipher goes on with
Fallback ==
    /\ pc = "fallback"
    /\ cycleword_lengths' = candidate_lengths(cipher_type, cfg, estimated)
    /\ pc' = "periods"
    /\ UNCHANGED <<cfg, estimated, estimator_ran, min_kw, pt_max, ct_max, visit,
                   solve_best, max_returned, best_decrypted, cribtext_str, estimator>>
    /\ UNCHANGED <<vars_cipher, vars_cfg, climber_locals, vars_out,
                   plaintext_keyword_len, ciphertext_keyword_len>>

NextEstimate == Estimate \/ Fallback

SpecEstimate == InitEstimate /\ [][NextEstimate]_vars

(***************************************************************************)
(* Claims about the period estimator.                                      *)
(***************************************************************************)

\* the returned lengths are in descending order of raw IoC
DescendingIoC ==
    \A a, b \in 1 .. Len(estimated) :
        a < b => ~DLess(estimator.raw_iocs[estimated[a]], estimator.raw_iocs[estimated[b]])

\* returned lengths of equal raw IoC are in ascending order
TiesAscending ==
    \A a, b \in 1 .. Len(estimated) :
        a < b /\ estimator.raw_iocs[estimated[a]] = estimator.raw_iocs[estimated[b]]
            => estimated[a] < estimated[b]

\* C11: the estimator returns the accepted lengths in descending order of
\* raw IoC, lengths of equal IoC in ascending order of L.
C11_SortedStable == estimator_ran => DescendingIoC /\ TiesAscending

\* every z-score is 0
ZScoresZero ==
    \A c \in 1 .. Len(estimator.z_scores) : estimator.z_scores[c] = Zero

\* the candidate periods are 1..15
FallbackPeriods ==
    /\ Len(cycleword_lengths) = 15
    /\ \A n \in 1 .. 15 : cycleword_lengths[n] = n

C13_ShortColumnIoCZero ==
    estimator_ran =>
        \A c \in 1 .. cfg.max_cycleword_len, k \in 0 .. (cfg.max_cycleword_len - 1) :
            k < c /\ Len(caesar_column(cipher_indices, c, k)) < 2
                => index_of_coincidence(caesar_column(cipher_indices, c, k)) = Zero

(***************************************************************************)
(* Claims about the same-key option, Beaufort, and the ITERATE step.       *)
(***************************************************************************)
CurrentState ==
    <<current_plaintext_keyword_state, current_ciphertext_keyword_state,
      current_cycleword_state, current_score>>

LocalState ==
    <<local_plaintext_keyword_state, local_ciphertext_keyword_state,
      local_cycleword_state, local_score>>

BestState ==
    <<best_plaintext_keyword_state, best_ciphertext_keyword_state,
      best_cycleword_state, best_score>>

\* a step of the hill-climb loop
IterateStep == pc = "climb" /\ climb' = climb + 1

\* a written state has PT = CT and its cycleword letters are the first
\* entries of that alphabet
SameKeyState(pt, ct, cw) ==
    pt # Indeterminate =>
        /\ pt = ct
        /\ \A c \in 1 .. Len(cw) : cw[c] = pt[c]

\* C15: with -samekey set, every state the climber scores (the initial
\* current state of a restart, each local state), holds as current, or holds
\* as best has its plaintext alphabet equal to its ciphertext alphabet and its
\* L cycleword letters equal to the first L entries of that alphabet.
C15_SameKeyForced ==
    same_key_cycle /\ pc # "restart" =>
        /\ SameKeyState(current_plaintext_keyword_state,
                        current_ciphertext_keyword_state, current_cycleword_state)
        /\ SameKeyState(local_plaintext_keyword_state,
                        local_ciphertext_keyword_state, local_cycleword_state)
        /\ SameKeyState(best_plaintext_keyword_state,
                        best_ciphertext_keyword_state, best_cycleword_state)

C17_AcceptOrKeep ==
    [][IterateStep =>
          /\ (local_score' > current_score => CurrentState' = LocalState')
          /\ (CurrentState' = LocalState' \/ CurrentState' = CurrentState)]_vars

\* a slip: the step took a local state that scores less than the current
\* state did, so current fell below best
C17_Witness ==
    /\ pc = "climb"
    /\ climb > 0
    /\ CurrentState = LocalState
    /\ local_score < best_score
    /\ current_plaintext_keyword_state # best_plaintext_keyword_state

\* C18: at the end of every ITERATE step best_score >= current_score, and
\* the best state and score change only in an ITERATE step whose new current
\* score is strictly greater than the previous best score; best is then a
\* copy of current.
C18_BestFollowsCurrent ==
    [][/\ (IterateStep => best_score' >= current_score')
       /\ (BestState' # BestState =>
               /\ IterateStep
               /\ current_score' > best_score
               /\ BestState' = CurrentState')]_vars

\* the first turn of the first restart took its local state and made it best
C18_Witness ==
    /\ pc = "climb"
    /\ restart = 0
    /\ climb = 1
    /\ best_score > 0
    /\ BestState = CurrentState
    /\ BestState = LocalState

\* stochastic mode, a Quagmire cipher, cribs given
StochasticQuagmireWithCribs ==
    ~optimal_cycleword /\ cipher_type \in QuagmireTypes /\ cribs # <<>>

\* C19: in stochastic mode for a Quagmire cipher with cribs, an ITERATE step
\* in which constrain_cycleword returned a contradiction leaves the current
\* state and score as they were: the local state is not copied into current.
C19_ContradictionNotAccepted ==
    [][IterateStep /\ StochasticQuagmireWithCribs
          /\ n_contradictions' = n_contradictions + 1
          => CurrentState' = CurrentState]_vars

\* C20: an ITERATE step in which constrain_cycleword returned a contradiction
\* sets perturbate_keyword_p, and the next ITERATE step of the restart
\* perturbs a keyword and leaves the cycleword to constrain_cycleword (no
\* random cycleword letter is drawn).
C20_ContradictionForcesKeyword ==
    [][/\ (IterateStep /\ n_contradictions' = n_contradictions + 1
              => perturbate_keyword_p')
       /\ (IterateStep /\ StochasticQuagmireWithCribs /\ climb > 0
              /\ perturbate_keyword_p
              => /\ did_perturb_keyword'
                 /\ (~same_key_cycle =>
                        \E junk \in IndeterminateInts :
                            local_cycleword_state' =
                                constrain_cycleword(cipher_indices, cribs,
                                    local_plaintext_keyword_state',
                                    local_ciphertext_keyword_state',
                                    current_cycleword_state, cycleword_len,
                                    variant, junk).cycleword))]_vars

\* the first turn of a restart met a contradiction and the second one
\* perturbed a keyword without meeting another
C20_Witness ==
    /\ StochasticQuagmireWithCribs
    /\ pc = "climb"
    /\ climb = 2
    /\ n_contradictions = 1
    /\ did_perturb_keyword
    /\ ~perturbate_keyword_p

(***************************************************************************)
(* Claims about the optimal-cycleword deriver.                             *)
(***************************************************************************)
\* the letters derive_optimal_cycleword tallies for column col of the
\* message under the trial shift
DerivedColumn(col, shift) ==
    LET rows == derive_column(message, ciphertext_keyword_indices,
                              Len(cycleword_indices), col, 0)
    IN  [r \in 1 .. Len(rows) |->
            derive_pt_char(cipher_type, variant, plaintext_keyword_indices,
                           rows[r][2], rows[r][1], shift)]

\* the letters of column col of the decrypted buffer
DecryptedColumn(col) ==
    LET len == Len(cycleword_indices)
        n   == Cardinality({i \in 1 .. Len(buffer) : (i - 1) % len = col})
    IN  [r \in 1 .. n |-> buffer[(r - 1) * len + col + 1]]

\* C21: for every periodic cipher type and both values of the variant flag,
\* the letters the deriver tallies for column k under the candidate s whose
\* stored value (the CT-alphabet letter at s) is the cycleword letter of slot
\* k are the letters the decrypt primitive produces at that column.
C21_DeriverMatchesDecrypt ==
    trail = <<"dec">> =>
        \A k \in 0 .. (Len(cycleword_indices) - 1), s \in Letters :
            At(ciphertext_keyword_indices, s) = At(cycleword_indices, k)
                => DerivedColumn(k, s) = DecryptedColumn(k)

\* a written state's cycleword is what derive_optimal_cycleword gives for
\* its two alphabets
DerivedState(pt, ct, cw) ==
    pt # Indeterminate =>
        cw = derive_optimal_cycleword(cipher_type, variant, cipher_indices,
                                      pt, ct, cycleword_len)

\* C22: with optimal_cycleword on and a periodic cipher, the initial current
\* state of a restart and every local state (hence every state current
\* holds) has as its cycleword the deriver's output for its two alphabets.
C22_CyclewordDerived ==
    optimal_cycleword /\ cipher_type \in PeriodicTypes =>
        /\ DerivedState(current_plaintext_keyword_state,
                        current_ciphertext_keyword_state, current_cycleword_state)
        /\ DerivedState(local_plaintext_keyword_state,
                        local_ciphertext_keyword_state, local_cycleword_state)

(***************************************************************************)
(* Claims about crib propagation.                                          *)
(***************************************************************************)
\* the slot of the cycleword crib j falls in
CribSlot(j) == cribs[j][1] % cycleword_len

\* rot_j: p is the position of the ciphertext letter at the crib's position
\* in the CT alphabet, q the position of the crib letter in the PT alphabet
CribRot(pt, ct, j) ==
    LET p == Position(ct, At(cipher_indices, cribs[j][1]))
        q == Position(pt, cribs[j][2])
    IN  ((IF variant THEN q - p ELSE p - q) + ALPHABET_SIZE) % ALPHABET_SIZE

\* the cycleword letter crib j implies for its slot
CribImplied(pt, ct, j) == At(ct, CribRot(pt, ct, j))

\* no two cribs of one slot imply different letters
CribsAgree(pt, ct) ==
    \A j1, j2 \in 1 .. Len(cribs) :
        CribSlot(j1) = CribSlot(j2) => CribImplied(pt, ct, j1) = CribImplied(pt, ct, j2)

\* an ITERATE step that called constrain_cycleword and whose local state
\* shows its result (the same-key copies did not overwrite it)
ConstrainStep ==
    /\ IterateStep
    /\ StochasticQuagmireWithCribs
    /\ did_perturb_keyword'
    /\ ~same_key_cycle

\* C23: when constrain_cycleword runs on permutation alphabets and no two
\* cribs of one slot imply different letters, it returns no contradiction,
\* every slot a crib addresses holds C[rot_j], and every other slot holds
\* what it held before the call.
C23_CribSlotsWritten ==
    [][ConstrainStep
          /\ IsPermutation(local_plaintext_keyword_state')
          /\ IsPermutation(local_ciphertext_keyword_state')
          /\ CribsAgree(local_plaintext_keyword_state', local_ciphertext_keyword_state')
          => /\ n_contradictions' = n_contradictions
             /\ \A j \in 1 .. Len(cribs) :
                    At(local_cycleword_state', CribSlot(j)) =
                        CribImplied(local_plaintext_keyword_state',
                                    local_ciphertext_keyword_state', j)
             /\ \A c \in 0 .. (cycleword_len - 1) :
                    (\A j \in 1 .. Len(cribs) : CribSlot(j) # c)
                        => At(local_cycleword_state', c) = At(current_cycleword_state, c)]_vars

\* a turn perturbed a keyword, the cribs agreed, and slot 0 holds the letter
\* they imply
C23_Witness ==
    /\ StochasticQuagmireWithCribs
    /\ ~same_key_cycle
    /\ pc = "climb"
    /\ climb > 0
    /\ did_perturb_keyword
    /\ n_contradictions = 0
    /\ IsPermutation(local_plaintext_keyword_state)
    /\ IsPermutation(local_ciphertext_keyword_state)
    /\ CribsAgree(local_plaintext_keyword_state, local_ciphertext_keyword_state)
    /\ At(local_cycleword_state, 0) =
           CribImplied(local_plaintext_keyword_state, local_ciphertext_keyword_state, 1)

\* the local state's decryption of the ciphertext
LocalDecrypted(pt, ct, cw) ==
    decrypt_text(cipher_type, cipher_indices, pt, ct, cw, variant)

\* C24: when constrain_cycleword returns no contradiction for a state with
\* permutation alphabets and at least one crib, decrypting the ciphertext
\* with the resulting state and the same variant flag gives every crib
\* letter at its position.
C24_CribsReproduced ==
    [][ConstrainStep
          /\ IsPermutation(local_plaintext_keyword_state')
          /\ IsPermutation(local_ciphertext_keyword_state')
          /\ n_contradictions' = n_contradictions
          => \A j \in 1 .. Len(cribs) :
                 At(LocalDecrypted(local_plaintext_keyword_state',
                                   local_ciphertext_keyword_state',
                                   local_cycleword_state'), cribs[j][1]) = cribs[j][2]]_vars

\* the second turn of a restart called constrain_cycleword without a
\* contradiction and the local state decrypts to T at 0 and H at 2
C24_Witness ==
    /\ StochasticQuagmireWithCribs
    /\ ~same_key_cycle
    /\ pc = "climb"
    /\ climb = 2
    /\ did_perturb_keyword
    /\ ~perturbate_keyword_p
    /\ IsPermutation(local_plaintext_keyword_state)
    /\ IsPermutation(local_ciphertext_keyword_state)
    /\ At(LocalDecrypted(local_plaintext_keyword_state, local_ciphertext_keyword_state,
                         local_cycleword_state), 0) = 19
    /\ At(LocalDecrypted(local_plaintext_keyword_state, local_ciphertext_keyword_state,
                         local_cycleword_state), 2) = 7

(***************************************************************************)
(* Claims about the alphabets a cipher type ties or fixes.                 *)
(***************************************************************************)
\* a written state has identical alphabets
SameAlphabets(pt, ct) == pt # Indeterminate => pt = ct

\* C25: for Quagmire 3 and Autokey 3 the plaintext and ciphertext alphabets
\* are identical in the current, the local and the best state, whatever
\* initialisations, keyword perturbations, forced perturbations and
\* backtracks came before.
C25_TiedAlphabets ==
    cipher_type \in {QUAGMIRE_3, AUTOKEY_3} =>
        /\ SameAlphabets(current_plaintext_keyword_state, current_ciphertext_keyword_state)
        /\ SameAlphabets(local_plaintext_keyword_state, local_ciphertext_keyword_state)
        /\ SameAlphabets(best_plaintext_keyword_state, best_ciphertext_keyword_state)

\* a second restart of a Quagmire 3 run perturbed the keyword; the taken
\* state has one keyed alphabet in both places
C25_Witness ==
    /\ cipher_type = QUAGMIRE_3
    /\ pc = "climb"
    /\ restart = 1
    /\ climb = 1
    /\ did_perturb_keyword
    /\ current_plaintext_keyword_state = local_plaintext_keyword_state
    /\ current_ciphertext_keyword_state = current_plaintext_keyword_state
    /\ current_plaintext_keyword_state # straight_alphabet
    /\ best_plaintext_keyword_state # Indeterminate

\* a written alphabet is the straight alphabet
Straight(a) == a # Indeterminate => a = straight_alphabet

\* C26: the alphabets the cipher type fixes are straight in the current, the
\* local and the best state of every reachable state: both alphabets for
\* Vigenere, Beaufort, Porta and Autokey 0, the CT alphabet for Quagmire 1
\* and Autokey 1, the PT alphabet for Quagmire 2 and Autokey 2.
C26_FixedAlphabetsStraight ==
    /\ StraightPT(cipher_type) =>
           /\ Straight(current_plaintext_keyword_state)
           /\ Straight(local_plaintext_keyword_state)
           /\ Straight(best_plaintext_keyword_state)
    /\ StraightCT(cipher_type) =>
           /\ Straight(current_ciphertext_keyword_state)
           /\ Straight(local_ciphertext_keyword_state)
           /\ Straight(best_ciphertext_keyword_state)

\* C26, amended: the PT alphabet the cipher type fixes is straight in every
\* reachable state; the CT alphabet the cipher type fixes is straight in
\* every reachable state of a run without -samekey; with -samekey the CT
\* alphabet of every written state is a copy of its PT alphabet instead.
C26_FixedUnlessSameKey ==
    /\ StraightPT(cipher_type) =>
           /\ Straight(current_plaintext_keyword_state)
           /\ Straight(local_plaintext_keyword_state)
           /\ Straight(best_plaintext_keyword_state)
    /\ StraightCT(cipher_type) /\ ~same_key_cycle =>
           /\ Straight(current_ciphertext_keyword_state)
           /\ Straight(local_ciphertext_keyword_state)
           /\ Straight(best_ciphertext_keyword_state)
    /\ same_key_cycle =>
           /\ SameAlphabets(current_plaintext_keyword_state, current_ciphertext_keyword_state)
           /\ SameAlphabets(local_plaintext_keyword_state, local_ciphertext_keyword_state)
           /\ SameAlphabets(best_plaintext_keyword_state, best_ciphertext_keyword_state)

\* a Quagmire 1 run with -samekey perturbed its PT keyword and took the
\* state: the CT alphabet is the keyed PT alphabet
C26_Witness ==
    /\ cipher_type = QUAGMIRE_1
    /\ same_key_cycle
    /\ pc = "climb"
    /\ climb > 0
    /\ did_perturb_keyword
    /\ current_plaintext_keyword_state = local_plaintext_keyword_state
    /\ current_ciphertext_keyword_state = current_plaintext_keyword_state
    /\ current_ciphertext_keyword_state # straight_alphabet

(***************************************************************************)
(* Claims about the autokey key stream.                                    *)
(***************************************************************************)
\* key_stream[0 .. key_stream_len) when autokey_decrypt returns: the loop of
\* autokey_loop, handing back the stream instead of the text
RECURSIVE autokey_key_stream(_, _, _, _, _, _)
autokey_key_stream(cipher_ix, plaintext_kw, ciphertext_kw, key_stream, decrypted, junk) ==
    IF Len(decrypted) >= Len(cipher_ix) THEN key_stream
    ELSE LET i == Len(decrypted) + 1
             posn_keyword == posn_or_minus1(ciphertext_kw, cipher_ix[i])
             k_char == IF i <= Len(key_stream) THEN key_stream[i] ELSE junk
             posn_key_char == posn_or_minus1(ciphertext_kw, k_char)
             raw == CRem(posn_keyword - posn_key_char, ALPHABET_SIZE)
             indx == IF raw < 0 THEN raw + ALPHABET_SIZE ELSE raw
             p_val == At(plaintext_kw, indx)
         IN  IF posn_keyword = -1 \/ posn_key_char = -1
             THEN autokey_key_stream(cipher_ix, plaintext_kw, ciphertext_kw, key_stream,
                                     Append(decrypted, 0), junk)
             ELSE autokey_key_stream(cipher_ix, plaintext_kw, ciphertext_kw,
                                     Append(key_stream, p_val), Append(decrypted, p_val),
                                     junk)

\* the arrays the final decrypt can read as the retained state
RetainedFrames ==
    IF solve_best.best_plaintext_keyword = Indeterminate
    THEN IndeterminateFramesOf(0)
    ELSE {[pt |-> solve_best.best_plaintext_keyword,
           ct |-> solve_best.best_ciphertext_keyword,
           cw |-> solve_best.best_cycleword]}

\* C27: after an autokey decryption the key stream is the primer (length L)
\* followed by the recovered plaintext in order: it has length L + N and its
\* element L + i is plaintext letter i, for every run of the final decrypt
\* that produced the reported text.
C27_KeyStreamIsPrimerThenPlaintext ==
    pc = "done" /\ is_autokey(cipher_type) =>
        \A fr \in RetainedFrames, junk \in IndeterminateInts :
            LET L == solve_best.best_cycleword_length
                primer == ReadCycleword(fr.cw, L, junk)
                stream == autokey_key_stream(cipher_indices, fr.pt, fr.ct, primer,
                                             <<>>, junk)
            IN  best_decrypted = autokey_decrypt(cipher_indices, fr.pt, fr.ct, primer, L, junk)
                    => /\ Len(stream) = L + Len(cipher_indices)
                       /\ \A i \in 1 .. Len(cipher_indices) :
                              stream[L + i] = best_decrypted[i]

(***************************************************************************)
(* Claims about what solve_cipher reports and which pairs it visits.       *)
(***************************************************************************)
\* C28: whenever solve_cipher reaches its final decrypt, the retained period
\* is at least 1 and the retained alphabets and cycleword were written by a
\* climber invocation, also when the loops visit no triple and when no
\* invocation returns a score above 0.
C28_ReportHasRetainedState ==
    pc \in {"done", "trap"} =>
        /\ solve_best.best_cycleword_length >= 1
        /\ solve_best.best_plaintext_keyword # Indeterminate
        /\ solve_best.best_ciphertext_keyword # Indeterminate
        /\ solve_best.best_cycleword # Indeterminate

\* the pairs the j and k loops let through in the present run
LoopPairs == keyword_pairs(cipher_type, cfg, min_kw, pt_max, ct_max)

\* C29: for Vigenere, Beaufort, Porta and Autokey 0 the pairs the loops let
\* through are the pair (1, 1) alone, whatever keyword-length options were
\* given, so the climber is invoked once for every candidate period.
C29_FlagsCannotKillLoop ==
    cipher_type \in {VIGENERE, BEAUFORT, PORTA, AUTOKEY_0} /\ pc # "setup" =>
        /\ LoopPairs = << <<1, 1>> >>
        /\ pc \in {"done", "trap"} => visit = Len(cycleword_lengths) /\ visit > 0

(***************************************************************************)
(* Claims about the capacity of the cycleword arrays.                      *)
(***************************************************************************)

\* C30: for every period the loops pass to the climber the cycleword reads
\* and writes stay inside their arrays: the letters the climber copies out
\* fit the caller's cycleword array, and the period the retained cycleword
\* is read with by the final decrypt is within the array retained from it.
C30_CyclewordWithinBuffers ==
    /\ cycleword # Indeterminate => Len(cycleword) <= CyclewordCapacity
    /\ solve_best.best_cycleword # Indeterminate =>
           /\ solve_best.best_cycleword_length <= CyclewordCapacity
           /\ Len(solve_best.best_cycleword) = solve_best.best_cycleword_length

====
